---- MODULE Spec2Model ----
(***************************************************************************)
(* Model of the page-fetch-and-link-validation engine of the URL analyzer  *)
(* (package utils: CrawlURL, checkBrokenLinks, checkSingleLink).           *)
(*                                                                         *)
(* One CrawlURL invocation is modelled: the main goroutine (pc), one       *)
(* worker goroutine per link (wpc), the goroutine that waits on the        *)
(* WaitGroup and closes `done`, the orchestration context (ctx) and the    *)
(* 30 s timer of checkBrokenLinks.  Time is abstracted: a timer or a       *)
(* deadline may fire at any moment after it has been armed.                *)
(*                                                                         *)
(* Atomicity: a step runs from one synchronisation or I/O point of a       *)
(* goroutine to the next.  Deferred calls (release of the semaphore slot,  *)
(* wg.Done) run back to back when the worker function returns and are part *)
(* of the step that returns.  The append of line 262 is split the way the  *)
(* compiler emits it (load the slice header, store the new length, store   *)
(* the element) because line 243 and line 286 read the slice without the   *)
(* mutex: what such a read can observe are exactly these intermediate      *)
(* states.  The servers of a page longer than MaxLinks answer within every *)
(* deadline: for such a page neither the timer nor the context's deadline  *)
(* fires while checkBrokenLinks runs.                                      *)
(***************************************************************************)
EXTENDS Integers, Sequences, FiniteSets, TLC

VARIABLES
    target,        \* CrawlURL's argument
    page,          \* the document the target serves: its http(s) anchors, resolved
    doc,           \* the document the target serves: its doctype, title and other elements
    pc,            \* position of the main goroutine in CrawlURL / checkBrokenLinks
    ctx,           \* the context of line 89: "live", "expired" (deadline), "canceled"
    linksToCheck,  \* line 169
    internal,      \* line 161
    external,      \* line 161
    i,             \* number of loop iterations of line 239 begun (workers spawned)
    wpc,           \* position of each worker goroutine (lines 248-265)
    brokenDetail,  \* each worker's brokenDetail (line 260), Nil when none
    wlen,          \* the slice length a worker loaded for its append (line 262)
    semaphore,     \* number of tokens in the channel of line 237
    mu,            \* holder of the mutex of line 228, 0 when free
    wg,            \* counter of the WaitGroup of line 229
    done,          \* "none": line 269 not reached, "open", "closed"
    brokenLinks,   \* the shared slice of line 227
    ret,           \* what checkBrokenLinks returned (the slice value read at return)
    result,        \* CrawlURL's return values [res, err]
    how,           \* history: which return of checkBrokenLinks was taken
    failedAt,      \* history: the stage of CrawlURL that failed, "none" if none
    lateSpawn,     \* history: workers spawned while the context was already done
    atCancel,      \* history: the slice when the context became done
    fetched,       \* res, err of line 111
    requests,      \* history: number of GET and HEAD requests put on the wire
    urls,          \* table urls: the row of id n at index n
    broken_links,  \* table broken_links, in insertion order
    jobs,          \* the goroutines running crawlAndUpdateURL, in the order of their go statements
    reqs,          \* the HTTP requests received, in the order of arrival
    first,         \* what an earlier call of CrawlURL for the same target returned, Nil if none
    sibling,       \* the locals of another call of CrawlURL, running at the same time
    clock          \* seconds since CrawlURL was called, and seconds spent in the select of line 275

vars == <<target, page, doc, pc, ctx, linksToCheck, internal, external, i, wpc, brokenDetail,
          wlen, semaphore, mu, wg, done, brokenLinks, ret, result, how, failedAt, lateSpawn,
          atCancel, fetched, requests, urls, broken_links, jobs, reqs, first,
          sibling, clock>>

-----------------------------------------------------------------------------
(* Bounds of the model *)

\* longest page whose every combination of link targets is explored
MaxLinks == 2

\* number of HTTP requests the handlers receive
MaxRequests == 2

\* number of elements of the largest document, the anchors apart
MaxElements == 3

\* width of Go's int in bits, scaled down from 64 to keep the arithmetic within the checker's
\* integers; the wrap-around at the ends of the range is the same at every width
IntBits == 16

(* Program constants *)

\* line 232: maxConcurrent := 10
ConcurrencyCap == 10

-----------------------------------------------------------------------------
(* Go values *)

\* a nil pointer / nil error is the empty sequence, a non-nil one a one-element sequence
Nil == <<>>
Ptr(x) == <<x>>

Min(a, b) == IF a < b THEN a ELSE b

Range(s) == {s[k] : k \in 1..Len(s)}

\* number of occurrences of e in the sequence s
Count(s, e) == Cardinality({k \in 1..Len(s) : s[k] = e})

-----------------------------------------------------------------------------
(* The network: what each URL does when requested.  Every URL has one fixed *)
(* behaviour, so a URL names its behaviour.                                 *)

TargetOK == "http://site/"
TargetNoScheme == "invalid-url"
TargetUnparseable == "http://bad host/"
Targets == {TargetOK, TargetNoScheme, TargetUnparseable}

UrlUp == "http://site/up"
UrlGone == "http://site/gone"
UrlRefused == "http://other/refused"
UrlSlow == "http://other/slow"
UrlBadReq == "http://site/badreq"
\* the link of the page another call of CrawlURL analyses at the same time
UrlSiblingGone == "http://sibling/gone"
\* the targets of the links of a page.  Every link of linksToCheck was accepted by url.Parse
\* (line 180) and printed by URL.String (line 201): none is known to be rejected by
\* http.NewRequestWithContext, so UrlBadReq is no link of a page
Urls == {UrlUp, UrlGone, UrlRefused, UrlSlow}

\* the target page itself with a fragment, and the target's host written in capitals
UrlTop == "http://site/#top"
UrlUpper == "http://SITE/up"

-----------------------------------------------------------------------------
(* net/url.  A string is parsed by table; resolution and printing are computed. *)

\* url.URL
URL(scheme, opaque, host, path, fragment) ==
    [Scheme |-> scheme, Opaque |-> opaque, Host |-> host, Path |-> path, Fragment |-> fragment]

\* hrefs of anchors that are not absolute http URLs
HrefEmpty == ""
HrefBad == ":bad"
HrefMail == "mailto:a@site"
HrefTel == "tel:+1"
HrefScript == "javascript:void(0)"
HrefAbsPath == "/up"
HrefRelPath == "gone"
HrefFragment == "#top"
HrefUpper == "HTTP://SITE/up"

\* url.Parse (lines 98, 156, 180): the scheme is lower-cased, the host is kept as written
urlParse(s) ==
    LET ok(u) == [err |-> FALSE, url |-> u]
        failed == [err |-> TRUE, url |-> URL("", "", "", "", "")]
    IN  CASE s = TargetOK -> ok(URL("http", "", "site", "/", ""))
          [] s = TargetNoScheme -> ok(URL("", "", "", "invalid-url", ""))
          [] s = UrlUp -> ok(URL("http", "", "site", "/up", ""))
          [] s = UrlGone -> ok(URL("http", "", "site", "/gone", ""))
          [] s = UrlBadReq -> ok(URL("http", "", "site", "/badreq", ""))
          [] s = UrlRefused -> ok(URL("http", "", "other", "/refused", ""))
          [] s = UrlSlow -> ok(URL("http", "", "other", "/slow", ""))
          [] s = UrlTop -> ok(URL("http", "", "site", "/", "top"))
          [] s = UrlUpper -> ok(URL("http", "", "SITE", "/up", ""))
          [] s = HrefUpper -> ok(URL("http", "", "SITE", "/up", ""))
          [] s = HrefMail -> ok(URL("mailto", "a@site", "", "", ""))
          [] s = HrefTel -> ok(URL("tel", "+1", "", "", ""))
          [] s = HrefScript -> ok(URL("javascript", "void(0)", "", "", ""))
          [] s = HrefAbsPath -> ok(URL("", "", "", "/up", ""))
          [] s = HrefRelPath -> ok(URL("", "", "", "gone", ""))
          [] s = HrefFragment -> ok(URL("", "", "", "", "top"))
          [] s = HrefEmpty -> ok(URL("", "", "", "", ""))
          [] OTHER -> failed

\* url.Parse / http.NewRequestWithContext accept the string (lines 98, 156)
ParseOK(u) == ~urlParse(u).err

\* the path begins with a slash
IsAbsPath(p) == p \in {"/", "/up", "/gone", "/badreq", "/refused", "/slow"}

\* the path up to and including its last slash
PathDir(p) == IF IsAbsPath(p) THEN "/" ELSE ""

\* net/url resolvePath; no path of the model holds a dot segment
resolvePath(base, ref) ==
    IF ref = "" THEN base
    ELSE IF IsAbsPath(ref) THEN ref
    ELSE PathDir(base) \o ref

\* (*URL).ResolveReference (line 186)
ResolveReference(base, ref) ==
    LET scheme == IF ref.Scheme = "" THEN base.Scheme ELSE ref.Scheme
    IN  IF ref.Scheme # "" \/ ref.Host # ""
        THEN URL(scheme, ref.Opaque, ref.Host, resolvePath(ref.Path, ""), ref.Fragment)
        ELSE IF ref.Opaque # ""
        THEN URL(scheme, ref.Opaque, "", "", ref.Fragment)
        ELSE URL(scheme, "", base.Host, resolvePath(base.Path, ref.Path),
                 IF ref.Path = "" /\ ref.Fragment = "" THEN base.Fragment ELSE ref.Fragment)

\* (*URL).String (line 201)
URLString(u) ==
    (IF u.Scheme # "" THEN u.Scheme \o ":" ELSE "")
    \o (IF u.Opaque # "" THEN u.Opaque
        ELSE (IF (u.Scheme # "" \/ u.Host # "") /\ (u.Host # "" \/ u.Path # "")
              THEN "//" \o u.Host ELSE "")
             \o u.Path)
    \o (IF u.Fragment # "" THEN "#" \o u.Fragment ELSE "")

\* a transport that dials whatever the scheme
OnTheWireAlways(s) == TRUE

\* http.Transport puts a request on the wire only for the schemes http and https
OnTheWire(s) == urlParse(s).url.Scheme \in {"http", "https"}

\* error texts of net/http and context
ErrClientTimeout == "context deadline exceeded (Client.Timeout exceeded while awaiting headers)"
ErrCtxDeadline == "context deadline exceeded"
ErrCtxCanceled == "context canceled"
ErrNoHost == "dial tcp: lookup: no such host"
ErrRefused == "dial tcp: connect: connection refused"
ErrCert == "x509: certificate signed by unknown authority"
ErrScheme == "unsupported protocol scheme"
ErrEOF == "EOF"

\* strings.Contains on the error texts above
Contains(s, sub) ==
    \/ sub = "context deadline exceeded" /\ s \in {ErrClientTimeout, ErrCtxDeadline}
    \/ sub = "no such host" /\ s = ErrNoHost
    \/ sub = "connection refused" /\ s = ErrRefused
    \/ sub = "certificate" /\ s = ErrCert

\* a round trip ends in a response [err = Nil] or in a transport error
Response(code, status) == [err |-> Nil, StatusCode |-> code, Status |-> status]
TransportError(text) == [err |-> Ptr(text), StatusCode |-> 0, Status |-> ""]

\* what a HEAD of a link target ends in
Serve(u) ==
    CASE u \in {UrlUp, UrlTop, UrlUpper} -> Response(200, "200 OK")
      [] u \in {UrlGone, UrlSiblingGone} -> Response(404, "404 Not Found")
      [] u = UrlRefused -> TransportError(ErrRefused)
      [] u = UrlSlow -> TransportError(ErrClientTimeout)
      [] OTHER -> TransportError(ErrEOF)

\* http.NewRequestWithContext fails on the link (line 297)
RequestFails(u) == u = UrlBadReq

\* what the GET of the target can end in (line 111), apart from the context's deadline
FetchOutcomes(t) ==
    IF ~OnTheWire(t) THEN {TransportError(ErrScheme)}
    ELSE {TransportError(e) : e \in {ErrClientTimeout, ErrNoHost, ErrRefused, ErrCert, ErrEOF}}
         \cup {Response(200, "200 OK"), Response(404, "404 Not Found"),
               Response(500, "500 Internal Server Error")}

\* what reading the body can end in (lines 137-149)
BodyOutcomes == {"ok", "gzip-corrupt", "read-error"}

-----------------------------------------------------------------------------
(* Pages *)

RECURSIVE SeqsUpTo(_, _)
SeqsUpTo(S, n) ==
    IF n = 0 THEN {<<>>}
    ELSE LET shorter == SeqsUpTo(S, n - 1)
         IN  shorter \cup {Append(s, x) : s \in {t \in shorter : Len(t) = n - 1}, x \in S}

\* every page of at most MaxLinks links
SmallPages == SeqsUpTo(Urls, MaxLinks)

\* pages with one link more than the concurrency cap: all targets up, or all up but
\* one that answers 404 (20 links in the test and in scenario D)
ManyLinks == ConcurrencyCap + 1
LongPages ==
    {[k \in 1..ManyLinks |-> UrlUp], [k \in 1..ManyLinks |-> IF k = 2 THEN UrlGone ELSE UrlUp]}

\* what the href of an anchor can be
Hrefs ==
    {HrefEmpty, HrefBad, HrefMail, HrefTel, HrefScript,
     HrefAbsPath, HrefRelPath, HrefFragment, HrefUpper, UrlGone, UrlRefused}

\* every page of at most MaxLinks anchors
AnchorPages == SeqsUpTo(Hrefs, MaxLinks)

Workers == 1..(IF MaxLinks > ManyLinks THEN MaxLinks ELSE ManyLinks)

-----------------------------------------------------------------------------
(* checkSingleLink, lines 290-343 *)

BrokenLinkDetail(url, code, error) == [URL |-> url, StatusCode |-> code, Error |-> error]

\* the zero value of the struct: what a slot of the slice holds before it is written
ZeroDetail == BrokenLinkDetail("", Nil, "")

\* the error text of client.Do passed on as it is
LinkErrorMsgRaw(errorMsg) == errorMsg

\* line 279: time.After(30 * time.Second)
TimerWait == 30

\* the clock at the call of CrawlURL
ClockStart == [now |-> 0, waited |-> 0]

\* lines 316-323
LinkErrorMsg(errorMsg) ==
    IF Contains(errorMsg, "context deadline exceeded") THEN "Link check timeout"
    ELSE IF Contains(errorMsg, "no such host") THEN "Host not found"
    ELSE IF Contains(errorMsg, "connection refused") THEN "Connection refused"
    ELSE errorMsg

\* lines 297-303: the request cannot be created
RequestCreationFailed(linkURL) ==
    Ptr(BrokenLinkDetail(linkURL, Nil, "Request creation failed"))

\* checkSingleLink without lines 311-314: an error is reported whatever the context's state
checkSingleLinkNoCtxSkip(linkURL, out, ctxErr) ==
    IF out.err # Nil
    THEN Ptr(BrokenLinkDetail(linkURL, Nil, LinkErrorMsg(out.err[1])))
    ELSE IF out.StatusCode >= 400
         THEN Ptr(BrokenLinkDetail(linkURL, Ptr(out.StatusCode), out.Status))
         ELSE Nil

\* checkSingleLink with the comparison of line 333 inverted
checkSingleLinkInverted(linkURL, out, ctxErr) ==
    IF out.err # Nil
    THEN IF ctxErr THEN Nil
         ELSE Ptr(BrokenLinkDetail(linkURL, Nil, LinkErrorMsg(out.err[1])))
    ELSE IF out.StatusCode < 400
         THEN Ptr(BrokenLinkDetail(linkURL, Ptr(out.StatusCode), out.Status))
         ELSE Nil

\* lines 309-343: client.Do has returned `out`; ctxErr is ctx.Err() != nil
checkSingleLink(linkURL, out, ctxErr) ==
    IF out.err # Nil
    THEN IF ctxErr THEN Nil
         ELSE Ptr(BrokenLinkDetail(linkURL, Nil, LinkErrorMsg(out.err[1])))
    ELSE IF out.StatusCode >= 400
         THEN Ptr(BrokenLinkDetail(linkURL, Ptr(out.StatusCode), out.Status))
         ELSE Nil

-----------------------------------------------------------------------------
(* CrawlURL, lines 87-223 *)

CrawlError(msg) == [res |-> Nil, err |-> Ptr(msg)]

\* every transport failure reported alike
FetchErrorMsgGeneric(text) == "network error"

\* lines 112-127
FetchErrorMsg(text) ==
    IF Contains(text, "context deadline exceeded") THEN "website timeout"
    ELSE IF Contains(text, "no such host") THEN "website not found"
    ELSE IF Contains(text, "connection refused") THEN "connection refused"
    ELSE IF Contains(text, "certificate") THEN "SSL certificate error"
    ELSE "network error"

-----------------------------------------------------------------------------
(* The document: the node tree goquery.NewDocumentFromReader (line 146) builds *)

\* an element node (html.Node: Data is the lower-cased tag name, Attr the attributes with
\* their values as written)
Element(tag, attrs, children) == [Data |-> tag, Attr |-> attrs, Children |-> children]

\* the elements without children a document is made of: headings, one of them with an
\* attribute, and input fields
Leaves ==
    {Element("h1", {}, <<>>), Element("h1", {<<"class", "big">>}, <<>>),
     Element("h2", {}, <<>>), Element("h3", {}, <<>>),
     Element("input", {<<"type", "password">>}, <<>>),
     Element("input", {<<"type", "PASSWORD">>}, <<>>),
     Element("input", {<<"type", "text">>}, <<>>)}

\* the elements that contain others
Containers == {"div", "form"}

\* the sequences of trees of n elements in all, and the trees of n elements
RECURSIVE Forests(_), Trees(_)
Forests(n) ==
    IF n = 0 THEN {<<>>}
    ELSE UNION {{<<t>> \o f : t \in Trees(k), f \in Forests(n - k)} : k \in 1..n}
Trees(n) ==
    IF n = 1 THEN Leaves \cup {Element(c, {}, <<>>) : c \in Containers}
    ELSE {Element(c, {}, f) : c \in Containers, f \in Forests(n - 1)}

\* the doctype of a document: none, the short form, two legacy DTDs, and an unknown one
DoctypeNone == ""
DoctypeHTML5 == "html"
DoctypeHTML401 == "HTML PUBLIC -//W3C//DTD HTML 4.01//EN"
DoctypeXHTML10 == "html PUBLIC -//W3C//DTD XHTML 1.0 Strict//EN"
DoctypeOther == "math"
Doctypes == {DoctypeNone, DoctypeHTML5, DoctypeHTML401, DoctypeXHTML10, DoctypeOther}

\* the text of the first title element, "" when there is none
TitleTexts == {"", " Home "}

Document(doctype, text, body) == [doctype |-> doctype, title |-> text, body |-> body]

\* the document of the pages whose links are explored
PlainDoc == Document(DoctypeHTML5, "", <<>>)

\* every document of at most MaxElements elements
Documents ==
    {Document(dt, t, b) : dt \in Doctypes, t \in TitleTexts,
                          b \in UNION {Forests(n) : n \in 0..MaxElements}}

\* only the top-level elements, not their descendants
DescendantsTopLevel(nodes) == nodes

\* goquery's Find walks every descendant of the selection, in document order
RECURSIVE Descendants(_)
Descendants(nodes) ==
    IF nodes = <<>> THEN <<>>
    ELSE <<Head(nodes)>> \o Descendants(Head(nodes).Children) \o Descendants(Tail(nodes))

\* doc.Find(tag), lines 164-166
Find(nodes, tag) == SelectSeq(Descendants(nodes), LAMBDA n : n.Data = tag)

\* doc.Find(`form input[type="password"]`), line 210: the attribute selector compares the
\* value with the string as written
FindPasswordInForm(nodes) ==
    SelectSeq(Descendants(nodes),
              LAMBDA n : /\ n.Data = "input"
                         /\ <<"type", "password">> \in n.Attr
                         /\ \E f \in 1..Len(Descendants(nodes)) :
                               /\ Descendants(nodes)[f].Data = "form"
                               /\ \E k \in 1..Len(Descendants(Descendants(nodes)[f].Children)) :
                                     Descendants(Descendants(nodes)[f].Children)[k] = n)

\* strings.TrimSpace, line 153
TrimSpace(s) == IF s = " Home " THEN "Home" ELSE s

\* line 151: htmlVer := "HTML5"; the doctype is not read
htmlVer(d) == "HTML5"

\* line 210
hasLogin(d) == Len(FindPasswordInForm(d.body)) > 0

-----------------------------------------------------------------------------
(* CrawlURL's results *)

\* the struct of lines 212-222
Structure(d, in, ex, broken) ==
    [HtmlVersion |-> htmlVer(d), Title |-> TrimSpace(d.title),
     H1 |-> Len(Find(d.body, "h1")), H2 |-> Len(Find(d.body, "h2")),
     H3 |-> Len(Find(d.body, "h3")),
     InternalLinks |-> in, ExternalLinks |-> ex, BrokenLinksDetails |-> broken,
     HasLoginForm |-> hasLogin(d)]

\* CrawlResult failing the call when a probe met a transport error
CrawlResultOrProbeError(in, ex, broken) ==
    IF \E k \in 1..Len(broken) : broken[k].StatusCode = Nil /\ broken[k].Error # ""
    THEN CrawlError("network error")
    ELSE [res |-> Ptr(Structure(doc, in, ex, broken)), err |-> Nil]

\* line 132
StatusErrorMsg(t, res) ==
    "website error: " \o t \o " returned " \o ToString(res.StatusCode) \o " " \o res.Status

\* CrawlResult counting as internal only the links not found broken
CrawlResultWorkingLinks(in, ex, broken) ==
    [res |-> Ptr(Structure(doc, in - Len(broken), ex, broken)), err |-> Nil]

\* lines 212-222
CrawlResult(in, ex, broken) == [res |-> Ptr(Structure(doc, in, ex, broken)), err |-> Nil]

NoResult == [res |-> Nil, err |-> Nil]

\* client.Do of line 111 has not returned
NoFetch == [err |-> Nil, StatusCode |-> 0, Status |-> ""]

\* the scheme test of line 189 left out
NotHTTPNever(u) == FALSE

\* line 189: the resolved URL is neither http nor https
NotHTTP(u) == u.Scheme # "http" /\ u.Scheme # "https"

\* line 194
SameHost(u, base) == u.Host = base.Host

\* the callback for one anchor skipping a URL that it has collected before
AnchorDedup(acc, href, base) ==
    IF href = "" THEN acc
    ELSE LET link == urlParse(href)
         IN  IF link.err THEN acc
             ELSE LET absoluteURL == ResolveReference(base, link.url)
                  IN  IF NotHTTP(absoluteURL) \/ URLString(absoluteURL) \in Range(acc.links)
                      THEN acc
                      ELSE [links |-> Append(acc.links, URLString(absoluteURL)),
                            internal |-> acc.internal + (IF SameHost(absoluteURL, base) THEN 1 ELSE 0),
                            external |-> acc.external + (IF SameHost(absoluteURL, base) THEN 0 ELSE 1)]

\* lines 174-201: the callback for one anchor; acc holds linksToCheck, internal, external
Anchor(acc, href, base) ==
    IF href = "" THEN acc
    ELSE LET link == urlParse(href)
         IN  IF link.err THEN acc
             ELSE LET absoluteURL == ResolveReference(base, link.url)
                  IN  IF NotHTTP(absoluteURL) THEN acc
                      ELSE [links |-> Append(acc.links, URLString(absoluteURL)),
                            internal |-> acc.internal + (IF SameHost(absoluteURL, base) THEN 1 ELSE 0),
                            external |-> acc.external + (IF SameHost(absoluteURL, base) THEN 0 ELSE 1)]

\* lines 173-202: Each runs the callback over the anchors in document order
RECURSIVE Anchors(_, _, _)
Anchors(hrefs, base, acc) ==
    IF hrefs = <<>> THEN acc
    ELSE Anchors(Tail(hrefs), base, Anchor(acc, Head(hrefs), base))

\* checkBrokenLinks entered whatever the number of links
HasLinksAlways(links) == TRUE

\* line 205
HasLinks(links) == Len(links) > 0

\* lines 232-235
maxConcurrent(links) == IF Len(links) < ConcurrencyCap THEN Len(links) ELSE ConcurrencyCap

ctxDone == ctx # "live"

\* another call of CrawlURL, for a page with one link, at its first line: its own
\* linksToCheck (line 169), brokenLinks (line 227), mu (line 228) and result
SiblingStart ==
    [pc |-> "start", linksToCheck |-> <<>>, brokenDetail |-> Nil, mu |-> 0,
     brokenLinks |-> <<>>, result |-> NoResult]

\* the deadlines (lines 89, 278) may pass while the page is being analysed
DeadlinesMayFire == Len(page) <= MaxLinks

-----------------------------------------------------------------------------
(* Initial states *)

InitWith(pages) ==
    /\ target \in Targets
    /\ page \in (IF target = TargetOK THEN pages ELSE {<<>>})
    /\ pc = "start"
    /\ ctx = "live"
    /\ linksToCheck = <<>>
    /\ internal = 0
    /\ external = 0
    /\ i = 0
    /\ wpc = [w \in Workers |-> "none"]
    /\ brokenDetail = [w \in Workers |-> Nil]
    /\ wlen = [w \in Workers |-> 0]
    /\ semaphore = 0
    /\ mu = 0
    /\ wg = 0
    /\ done = "none"
    /\ brokenLinks = <<>>
    /\ ret = <<>>
    /\ result = NoResult
    /\ how = "none"
    /\ failedAt = "none"
    /\ lateSpawn = {}
    /\ atCancel = <<>>
    /\ fetched = NoFetch
    /\ requests = [GET |-> 0, HEAD |-> 0]
    /\ urls = <<>>
    /\ broken_links = <<>>
    /\ jobs = <<>>
    /\ reqs = <<>>
    /\ first = Nil
    /\ sibling = SiblingStart
    /\ clock = ClockStart

Init == InitWith(SmallPages) /\ doc = PlainDoc

InitMany == InitWith(SmallPages \cup LongPages) /\ doc = PlainDoc

InitAnchors == InitWith(AnchorPages) /\ doc = PlainDoc

\* the documents of at most one element
SmallDocuments ==
    {Document(dt, t, b) : dt \in Doctypes, t \in TitleTexts, b \in Forests(0) \cup Forests(1)}

\* the pages of Init, and every small document on a page without anchors
InitSmallDocuments ==
    /\ InitWith(SmallPages)
    /\ doc \in (IF target = TargetOK /\ page = <<>> THEN SmallDocuments ELSE {PlainDoc})

\* the pages of Init, and every document on a page without anchors
InitDocuments ==
    /\ InitWith(SmallPages)
    /\ doc \in (IF target = TargetOK /\ page = <<>> THEN Documents ELSE {PlainDoc})

\* a document with a title, a heading and a login form
RichDoc ==
    Document(DoctypeHTML401, " Home ",
             <<Element("h1", {}, <<>>),
               Element("form", {}, <<Element("input", {<<"type", "password">>}, <<>>)>>)>>)

\* the pages of Init, each as a plain document and as one with a structure
InitStructured ==
    /\ InitWith(SmallPages)
    /\ doc \in {PlainDoc, RichDoc}


-----------------------------------------------------------------------------
(* The main goroutine: CrawlURL *)

\* a return of CrawlURL: the deferred cancel() of line 90 runs
Return(r) ==
    /\ result' = r
    /\ pc' = "returned"
    /\ ctx' = IF ctx = "live" THEN "canceled" ELSE ctx
    /\ atCancel' = IF ctx = "live" THEN brokenLinks ELSE atCancel

\* lines 98-101
NewRequest ==
    /\ pc = "start"
    /\ IF ParseOK(target)
       THEN /\ pc' = "fetch"
            /\ UNCHANGED <<result, ctx, atCancel, failedAt>>
       ELSE /\ Return(CrawlError("failed to create request"))
            /\ failedAt' = "request"
    /\ UNCHANGED <<target, page, doc, linksToCheck, internal, external, i, wpc, brokenDetail,
                   wlen, semaphore, mu, wg, done, brokenLinks, ret, how, lateSpawn, fetched,
                   requests, urls, broken_links, jobs, reqs, first, sibling, clock>>

\* Fetch without the status check of lines 131-133
FetchIgnoresStatus ==
    /\ pc = "fetch"
    /\ \E out \in (IF ctxDone THEN {TransportError(ErrCtxDeadline)} ELSE FetchOutcomes(target)) :
          /\ fetched' = out
          /\ IF out.err # Nil
             THEN /\ Return(CrawlError(FetchErrorMsg(out.err[1])))
                  /\ failedAt' = "fetch"
             ELSE /\ pc' = "parse"
                  /\ UNCHANGED <<result, ctx, atCancel, failedAt>>
    /\ requests' = IF ~ctxDone /\ OnTheWire(target)
                   THEN [requests EXCEPT !.GET = requests.GET + 1] ELSE requests
    /\ UNCHANGED <<target, page, doc, linksToCheck, internal, external, i, wpc, brokenDetail,
                   wlen, semaphore, mu, wg, done, brokenLinks, ret, how, lateSpawn, urls,
                   broken_links, jobs, reqs, first, sibling, clock>>

\* lines 111-133: client.Do and the status check
Fetch ==
    /\ pc = "fetch"
    /\ \E out \in (IF ctxDone THEN {TransportError(ErrCtxDeadline)} ELSE FetchOutcomes(target)) :
          /\ fetched' = out
          /\ IF out.err # Nil
             THEN /\ Return(CrawlError(FetchErrorMsg(out.err[1])))
                  /\ failedAt' = "fetch"
             ELSE IF out.StatusCode >= 400
             THEN /\ Return(CrawlError(StatusErrorMsg(target, out)))
                  /\ failedAt' = "status"
             ELSE /\ pc' = "parse"
                  /\ UNCHANGED <<result, ctx, atCancel, failedAt>>
    /\ requests' = IF ~ctxDone /\ OnTheWire(target)
                   THEN [requests EXCEPT !.GET = requests.GET + 1] ELSE requests
    /\ UNCHANGED <<target, page, doc, linksToCheck, internal, external, i, wpc, brokenDetail,
                   wlen, semaphore, mu, wg, done, brokenLinks, ret, how, lateSpawn, urls,
                   broken_links, jobs, reqs, first, sibling, clock>>

\* ParseFailure handing out a partial result beside the error
ParseFailurePartial(body) ==
    [res |-> Ptr([InternalLinks |-> 0, ExternalLinks |-> 0, BrokenLinksDetails |-> <<>>]),
     err |-> Ptr("parsing error")]

\* lines 136-149: what CrawlURL returns when the gzip reader or goquery fails
ParseFailure(body) ==
    IF body = "gzip-corrupt" THEN CrawlError("failed to create gzip reader")
    ELSE CrawlError("parsing error")

\* lines 135-207: read and parse the body, classify the links, and enter checkBrokenLinks
\* (lines 227-237) when there are links
Parse ==
    /\ pc = "parse"
    /\ \E body \in BodyOutcomes :
          IF body # "ok"
          THEN /\ Return(ParseFailure(body))
               /\ failedAt' = IF body = "gzip-corrupt" THEN "gzip" ELSE "parse"
               /\ UNCHANGED <<linksToCheck, internal, external>>
          ELSE IF ~ParseOK(target)
          THEN /\ Return(CrawlError("failed to parse base URL"))
               /\ failedAt' = "base"
               /\ UNCHANGED <<linksToCheck, internal, external>>
          ELSE LET found == Anchors(page, urlParse(target).url,
                                    [links |-> <<>>, internal |-> 0, external |-> 0])
               IN  /\ linksToCheck' = found.links
                   /\ internal' = found.internal
                   /\ external' = found.external
                   /\ pc' = IF HasLinks(found.links) THEN "loop" ELSE "assemble"
               /\ UNCHANGED <<result, ctx, atCancel, failedAt>>
    /\ UNCHANGED <<target, page, doc, i, wpc, brokenDetail, wlen, semaphore, mu, wg, done,
                   brokenLinks, ret, how, lateSpawn, fetched, requests, urls, broken_links,
                   jobs, reqs, first, sibling, clock>>

-----------------------------------------------------------------------------
(* The main goroutine: checkBrokenLinks *)

\* a return of checkBrokenLinks (lines 243, 286): the slice is read as it is, without the mutex
ReturnBroken(path) ==
    /\ ret' = brokenLinks
    /\ how' = path
    /\ pc' = "assemble"

\* LoopCheck without the select of lines 241-245
LoopNoCheck ==
    /\ pc = "loop"
    /\ pc' = "spawn"
    /\ UNCHANGED <<target, page, doc, ctx, linksToCheck, internal, external, i, wpc,
                   brokenDetail, wlen, semaphore, mu, wg, done, brokenLinks, ret, result, how,
                   failedAt, lateSpawn, atCancel, fetched, requests, urls, broken_links, jobs,
                   reqs, first, sibling, clock>>

\* lines 239-245: the head of a loop iteration
LoopCheck ==
    /\ pc = "loop"
    /\ IF ctxDone
       THEN ReturnBroken("loop")
       ELSE /\ pc' = "spawn"
            /\ UNCHANGED <<ret, how>>
    /\ UNCHANGED <<target, page, doc, ctx, linksToCheck, internal, external, i, wpc,
                   brokenDetail, wlen, semaphore, mu, wg, done, brokenLinks, result, failedAt,
                   lateSpawn, atCancel, fetched, requests, urls, broken_links, jobs, reqs,
                   first, sibling, clock>>

\* lines 247-248, and after the last iteration lines 269-273
Spawn ==
    /\ pc = "spawn"
    /\ wg' = wg + 1
    /\ i' = i + 1
    /\ wpc' = [wpc EXCEPT ![i + 1] = "acquire"]
    /\ lateSpawn' = IF ctxDone THEN lateSpawn \cup {i + 1} ELSE lateSpawn
    /\ IF i + 1 = Len(linksToCheck)
       THEN pc' = "select" /\ done' = "open"
       ELSE pc' = "loop" /\ UNCHANGED done
    /\ UNCHANGED <<target, page, doc, ctx, linksToCheck, internal, external, brokenDetail, wlen,
                   semaphore, mu, brokenLinks, ret, result, how, failedAt, atCancel, fetched,
                   requests, urls, broken_links, jobs, reqs, first, sibling, clock>>

\* lines 270-273: the goroutine that waits for the workers
WaitClose ==
    /\ done = "open"
    /\ wg = 0
    /\ done' = "closed"
    /\ UNCHANGED <<target, page, doc, pc, ctx, linksToCheck, internal, external, i, wpc,
                   brokenDetail, wlen, semaphore, mu, wg, brokenLinks, ret, result, how,
                   failedAt, lateSpawn, atCancel, fetched, requests, urls, broken_links, jobs,
                   reqs, first, sibling, clock>>

\* lines 276-277
SelectDone ==
    /\ pc = "select"
    /\ done = "closed"
    /\ ReturnBroken("done")

\* lines 278-280
SelectTimer ==
    /\ pc = "select"
    /\ DeadlinesMayFire
    /\ ReturnBroken("timer")

\* lines 281-283
SelectCtx ==
    /\ pc = "select"
    /\ ctxDone
    /\ ReturnBroken("ctx")

\* Select waiting for the workers alone: no timer, no context
SelectWaitsForWorkers ==
    /\ SelectDone
    /\ UNCHANGED <<target, page, doc, ctx, linksToCheck, internal, external, i, wpc,
                   brokenDetail, wlen, semaphore, mu, wg, done, brokenLinks, result, failedAt,
                   lateSpawn, atCancel, fetched, requests, urls, broken_links, jobs, reqs,
                   first, sibling, clock>>

\* lines 275-286
Select ==
    /\ SelectDone \/ SelectTimer \/ SelectCtx
    /\ UNCHANGED <<target, page, doc, ctx, linksToCheck, internal, external, i, wpc,
                   brokenDetail, wlen, semaphore, mu, wg, done, brokenLinks, result, failedAt,
                   lateSpawn, atCancel, fetched, requests, urls, broken_links, jobs, reqs,
                   first, sibling, clock>>

\* lines 206-222; ret is dead afterwards
Assemble ==
    /\ pc = "assemble"
    /\ Return(CrawlResult(internal, external, ret))
    /\ UNCHANGED <<target, page, doc, linksToCheck, internal, external, i, wpc, brokenDetail,
                   wlen, semaphore, mu, wg, done, brokenLinks, ret, how, failedAt, lateSpawn,
                   fetched, requests, urls, broken_links, jobs, reqs, first, sibling, clock>>

\* line 89: the deadline of the context passes
CtxExpire ==
    /\ ctx = "live"
    /\ pc \notin {"start", "returned"}
    /\ DeadlinesMayFire
    /\ ctx' = "expired"
    /\ atCancel' = brokenLinks
    /\ UNCHANGED <<target, page, doc, pc, linksToCheck, internal, external, i, wpc,
                   brokenDetail, wlen, semaphore, mu, wg, done, brokenLinks, ret, result, how,
                   failedAt, lateSpawn, fetched, requests, urls, broken_links, jobs, reqs,
                   first, sibling, clock>>

-----------------------------------------------------------------------------
(* The worker goroutines, lines 248-265 *)

\* the worker returns without the deferred receive of line 257
WorkerExitKeepsSlot(w, held) ==
    /\ wpc' = [wpc EXCEPT ![w] = "exit"]
    /\ semaphore' = semaphore
    /\ wg' = wg - 1
    /\ brokenDetail' = [brokenDetail EXCEPT ![w] = Nil]
    /\ wlen' = [wlen EXCEPT ![w] = 0]

\* the worker function returns: the deferred calls of lines 257 and 249 run
WorkerExit(w, held) ==
    /\ wpc' = [wpc EXCEPT ![w] = "exit"]
    /\ semaphore' = semaphore - held
    /\ wg' = wg - 1
    /\ brokenDetail' = [brokenDetail EXCEPT ![w] = Nil]
    /\ wlen' = [wlen EXCEPT ![w] = 0]

\* CanAcquire with a channel one slot too large
CanAcquireOffByOne == semaphore <= maxConcurrent(linksToCheck)

\* line 253: a send on the semaphore can proceed
CanAcquire == semaphore < maxConcurrent(linksToCheck)

\* lines 252-253 and 260, 297-309: take a slot and start the probe.  client.Do puts no
\* request on the wire when the context is already done.
Acquire(w) ==
    /\ wpc[w] = "acquire"
    /\ CanAcquire
    /\ LET url == linksToCheck[w] IN
       IF RequestFails(url)
       THEN /\ semaphore' = semaphore + 1
            /\ brokenDetail' = [brokenDetail EXCEPT ![w] = RequestCreationFailed(url)]
            /\ wpc' = [wpc EXCEPT ![w] = "lock"]
            /\ UNCHANGED <<wg, wlen, requests>>
       ELSE IF ctxDone
       THEN /\ WorkerExit(w, 0)
            /\ UNCHANGED requests
       ELSE /\ semaphore' = semaphore + 1
            /\ wpc' = [wpc EXCEPT ![w] = "probe"]
            /\ requests' = [requests EXCEPT !.HEAD = requests.HEAD + 1]
            /\ UNCHANGED <<wg, wlen, brokenDetail>>
    /\ UNCHANGED <<target, page, doc, pc, ctx, linksToCheck, internal, external, i, mu, done,
                   brokenLinks, ret, result, how, failedAt, lateSpawn, atCancel, fetched, urls,
                   broken_links, jobs, reqs, first, sibling, clock>>

\* lines 254-255
GiveUp(w) ==
    /\ wpc[w] = "acquire"
    /\ ctxDone
    /\ WorkerExit(w, 0)
    /\ UNCHANGED <<target, page, doc, pc, ctx, linksToCheck, internal, external, i, mu, done,
                   brokenLinks, ret, result, how, failedAt, lateSpawn, atCancel, fetched,
                   requests, urls, broken_links, jobs, reqs, first, sibling, clock>>

\* lines 260, 309-343: client.Do has returned `out`
ProbeReturns(w, out) ==
    LET d == checkSingleLink(linksToCheck[w], out, ctxDone) IN
    IF d = Nil
    THEN WorkerExit(w, 1)
    ELSE /\ brokenDetail' = [brokenDetail EXCEPT ![w] = d]
         /\ wpc' = [wpc EXCEPT ![w] = "lock"]
         /\ UNCHANGED <<semaphore, wg, wlen>>

\* the target of the link answers, or the request fails on its own
ProbeDone(w) ==
    /\ wpc[w] = "probe"
    /\ ProbeReturns(w, Serve(linksToCheck[w]))
    /\ UNCHANGED <<target, page, doc, pc, ctx, linksToCheck, internal, external, i, mu, done,
                   brokenLinks, ret, result, how, failedAt, lateSpawn, atCancel, fetched,
                   requests, urls, broken_links, jobs, reqs, first, sibling, clock>>

\* the request is cut off by the context
ProbeAbort(w) ==
    /\ wpc[w] = "probe"
    /\ ctxDone
    /\ ProbeReturns(w, TransportError(IF ctx = "expired" THEN ErrCtxDeadline ELSE ErrCtxCanceled))
    /\ UNCHANGED <<target, page, doc, pc, ctx, linksToCheck, internal, external, i, mu, done,
                   brokenLinks, ret, result, how, failedAt, lateSpawn, atCancel, fetched,
                   requests, urls, broken_links, jobs, reqs, first, sibling, clock>>

\* CanLock without mutual exclusion
CanLockAlways == TRUE

\* line 261: mu.Lock() can proceed
CanLock == mu = 0

\* lines 261-262: lock, and load the slice header
Lock(w) ==
    /\ wpc[w] = "lock"
    /\ CanLock
    /\ mu' = w
    /\ wlen' = [wlen EXCEPT ![w] = Len(brokenLinks)]
    /\ wpc' = [wpc EXCEPT ![w] = "grow"]
    /\ UNCHANGED <<target, page, doc, pc, ctx, linksToCheck, internal, external, i,
                   brokenDetail, semaphore, wg, done, brokenLinks, ret, result, how, failedAt,
                   lateSpawn, atCancel, fetched, requests, urls, broken_links, jobs, reqs,
                   first, sibling, clock>>

\* line 262: store the new length; the new slot is still zero
Grow(w) ==
    /\ wpc[w] = "grow"
    /\ brokenLinks' = Append(SubSeq(brokenLinks, 1, Min(wlen[w], Len(brokenLinks))), ZeroDetail)
    /\ wpc' = [wpc EXCEPT ![w] = "write"]
    /\ UNCHANGED <<target, page, doc, pc, ctx, linksToCheck, internal, external, i,
                   brokenDetail, wlen, semaphore, mu, wg, done, ret, result, how, failedAt,
                   lateSpawn, atCancel, fetched, requests, urls, broken_links, jobs, reqs,
                   first, sibling, clock>>

\* the slot k of the backing array is written: a slice that covers the slot shows the element
StoreInto(list, k, d) == IF k <= Len(list) THEN [list EXCEPT ![k] = d] ELSE list

\* lines 262-263: store the element into the new slot, unlock, and the worker returns.  A
\* slice value read at a return after the length was stored (line 243 or 286) covers the
\* slot and shares the backing array, and so does the CrawlResult built from it
WriteUnlock(w) ==
    /\ wpc[w] = "write"
    /\ brokenLinks' = StoreInto(brokenLinks, wlen[w] + 1, brokenDetail[w][1])
    /\ ret' = StoreInto(ret, wlen[w] + 1, brokenDetail[w][1])
    /\ result' = IF result.res = Nil THEN result
                 ELSE [result EXCEPT !.res[1].BrokenLinksDetails =
                          StoreInto(result.res[1].BrokenLinksDetails, wlen[w] + 1,
                                    brokenDetail[w][1])]
    /\ mu' = IF mu = w THEN 0 ELSE mu
    /\ WorkerExit(w, 1)
    /\ UNCHANGED <<target, page, doc, pc, ctx, linksToCheck, internal, external, i, done, how,
                   failedAt, lateSpawn, atCancel, fetched, requests, urls, broken_links, jobs,
                   reqs, first, sibling, clock>>

Worker(w) ==
    \/ Acquire(w)
    \/ GiveUp(w)
    \/ ProbeDone(w)
    \/ ProbeAbort(w)
    \/ Lock(w)
    \/ Grow(w)
    \/ WriteUnlock(w)

-----------------------------------------------------------------------------
(* Specifications *)

Main ==
    \/ NewRequest
    \/ Fetch
    \/ Parse
    \/ LoopCheck
    \/ Spawn
    \/ Select
    \/ Assemble

Next ==
    \/ Main
    \/ WaitClose
    \/ CtxExpire
    \/ \E w \in Workers : Worker(w)

\* pages of at most MaxLinks links
Spec == Init /\ [][Next]_vars

\* the same, and the pages with more links than the concurrency cap
SpecMany == InitMany /\ [][Next]_vars

\* pages whose anchors carry every kind of href
SpecAnchors == InitAnchors /\ [][Next]_vars

SpecDocuments == InitDocuments /\ [][Next]_vars

SpecStructured == InitStructured /\ [][Next]_vars

\* The main goroutine and the goroutine closing `done` are scheduled fairly.  Nothing is
\* assumed of the workers or of the servers they talk to.
LiveSpec == Init /\ [][Next]_vars /\ WF_vars(Main) /\ WF_vars(WaitClose)

\* Every goroutine is scheduled fairly, the workers too: a probe ends by its client's
\* timeout (line 293), and a worker that can send on the semaphore or take the mutex does.
LiveWorkers ==
    /\ Init /\ [][Next]_vars
    /\ WF_vars(Main) /\ WF_vars(WaitClose)
    /\ \A w \in Workers : WF_vars(Worker(w))

-----------------------------------------------------------------------------
(* Package handlers: the URL handlers and the background analysis.  A step is *)
(* one SQL statement together with the Go code up to the next statement; the  *)
(* database executes statements one at a time.  A row keeps its id as its     *)
(* index in urls; a deleted row leaves NoRow behind.                          *)

\* a row of urls after the INSERT of lines 65-72 (the other columns take their defaults)
Row(user, url) ==
    [user_id |-> user, url |-> url, status |-> "queued", error_message |-> Nil,
     internal_links |-> 0, external_links |-> 0, broken_links |-> 0]

NoRow == [Row(0, "") EXCEPT !.status = "deleted"]

RowExists(id) == id \in 1..Len(urls) /\ urls[id] # NoRow

\* a row of broken_links (lines 147-150)
BrokenLinkRow(id, detail) ==
    [url_id |-> id, link_url |-> detail.URL, status_code |-> detail.StatusCode,
     error_message |-> detail.Error]

\* what utils.CrawlURL(url) can return (line 112)
CrawlOutcomes(url) ==
    IF ~OnTheWire(url) THEN {CrawlError(FetchErrorMsg(ErrScheme))}
    ELSE {CrawlError(FetchErrorMsg(ErrRefused)),
          CrawlResult(1, 0, <<>>),
          CrawlResult(1, 1, <<checkSingleLink(UrlGone, Serve(UrlGone), FALSE)[1],
                              checkSingleLink(UrlRefused, Serve(UrlRefused), FALSE)[1]>>)}

\* UPDATE urls SET ... WHERE id = ?: no row, no change
UpdateRow(id, row) == IF RowExists(id) THEN [urls EXCEPT ![id] = row] ELSE urls

\* line 109
SetRunning(row) == [row EXCEPT !.status = "running"]

\* the error text stored without the status
StoreErrorKeepsStatus(row, msg) == [row EXCEPT !.error_message = Ptr(msg)]

\* lines 115-118
StoreError(row, msg) == [row EXCEPT !.status = "error", !.error_message = Ptr(msg)]

\* the result stored without the number of broken links
StoreResultNoCount(row, res) ==
    [row EXCEPT !.status = "completed",
                !.internal_links = res.InternalLinks,
                !.external_links = res.ExternalLinks]

\* lines 123-143
StoreResult(row, res) ==
    [row EXCEPT !.status = "completed",
                !.internal_links = res.InternalLinks,
                !.external_links = res.ExternalLinks,
                !.broken_links = Len(res.BrokenLinksDetails)]

\* lines 399-402, 548-551
SetQueued(row) == [row EXCEPT !.status = "queued", !.error_message = Nil]

\* DELETE FROM broken_links WHERE url_id = ? (lines 411, 552)
ClearBrokenLinks(id) == SelectSeq(broken_links, LAMBDA b : b.url_id # id)

\* go crawlAndUpdateURL(id, url) (lines 86-88, 414-417, 555-557)
Go(id, url) == Append(jobs, [urlID |-> id, url |-> url, pc |-> "start", out |-> NoResult, k |-> 0])

\* a request in flight or answered: code is the HTTP status of the response, 0 before it
\* and items the rows (id and url) a reanalysis has selected and not yet dealt with
\* param is the id path parameter, data the ids of the urls rows and links the url_id of the
\* broken_links rows in the response, paging the page parameters of GetUrls
Request(op, user, url, items, at, code) ==
    [op |-> op, user |-> user, url |-> url, items |-> items, pc |-> at, code |-> code,
     param |-> "", data |-> <<>>, links |-> <<>>, paging |-> Nil]

\* a request answered by its first step
Respond(op, user, code) == Request(op, user, "", <<>>, "done", code)

Item(id) == [ID |-> id, URL |-> urls[id].url]

\* ascending sequence of the elements of a set of ids
RECURSIVE SortedSeq(_)
SortedSeq(S) ==
    IF S = {} THEN <<>>
    ELSE LET m == CHOOSE x \in S : \A y \in S : x <= y
         IN  <<m>> \o SortedSeq(S \ {m})

\* the authenticated users, the URLs they submit, and the ids they name
Users == {1, 2}

\* a request without user_id in its context, and every caller
NoUser == 0
Callers == Users \cup {NoUser}

\* every handler lets any caller through
AuthenticatedAlways(user) == TRUE

\* c.Get("user_id") of lines 23, 156, 268, 338, 372, 427, 483, 568
Authenticated(user) == user # NoUser

\* the id path parameter, c.Param("id"): a string, here the decimal of an id or no number
IdParam(id) == ToString(id)
IdInvalid == "invalid"
IdParams == {IdParam(id) : id \in 1..MaxRequests} \cup {IdInvalid}
Numeric(s) == \E id \in 1..MaxRequests : IdParam(id) = s

\* the number MySQL compares the column id with when the parameter is the string s: the
\* number s spells, and 0 for a string that spells none
ColumnInt(s) == IF Numeric(s) THEN CHOOSE id \in 1..MaxRequests : IdParam(id) = s ELSE 0

\* a row of any user passes for the caller's
OwnsAny(user, id) == RowExists(id)

\* WHERE id = ? AND user_id = ? (lines 277, 348, 384), WHERE user_id = ? AND id IN (lines
\* 452, 508)
Owns(user, id) == RowExists(id) /\ urls[id].user_id = user
AddedUrls == {TargetOK, TargetNoScheme}
RowIds == 1..MaxRequests
RequestIds == 1..MaxRequests

\* a request starts at most one goroutine for each row it has found
JobIds == 1..(MaxRequests * MaxRequests)

MayArrive == Len(reqs) < MaxRequests

\* the database is empty and no request has arrived; no CrawlURL of the model above runs
InitRows ==
    /\ InitWith({<<>>})
    /\ doc = PlainDoc
    /\ target = TargetOK

\* AddUrl, lines 17-62: up to the SELECT of line 50
AddUrl(user, url) ==
    /\ MayArrive
    /\ IF ~Authenticated(user)
       THEN reqs' = Append(reqs, Respond("AddUrl", user, 401))
       ELSE IF url = ""
       THEN reqs' = Append(reqs, Respond("AddUrl", user, 400))
       ELSE IF \E id \in 1..Len(urls) : urls[id].url = url /\ urls[id].user_id = user
       THEN reqs' = Append(reqs, Request("AddUrl", user, url, <<>>, "done", 409))
       ELSE reqs' = Append(reqs, Request("AddUrl", user, url, <<>>, "insert", 0))
    /\ UNCHANGED <<target, page, doc, pc, ctx, linksToCheck, internal, external, i, wpc,
                   brokenDetail, wlen, semaphore, mu, wg, done, brokenLinks, ret, result, how,
                   failedAt, lateSpawn, atCancel, fetched, requests, urls, broken_links, jobs,
                   first, sibling, clock>>

\* AddUrl, lines 64-103: the INSERT, the go statement and the response
AddUrlInsert(r) ==
    /\ r \in 1..Len(reqs)
    /\ reqs[r].pc = "insert"
    /\ urls' = Append(urls, Row(reqs[r].user, reqs[r].url))
    /\ jobs' = Go(Len(urls) + 1, reqs[r].url)
    /\ reqs' = [reqs EXCEPT ![r].pc = "done", ![r].code = 201]
    /\ UNCHANGED <<target, page, doc, pc, ctx, linksToCheck, internal, external, i, wpc,
                   brokenDetail, wlen, semaphore, mu, wg, done, brokenLinks, ret, result, how,
                   failedAt, lateSpawn, atCancel, fetched, requests, broken_links, first,
                   sibling, clock>>

\* crawlAndUpdateURL, line 109
CrawlBegin(j) ==
    /\ j \in 1..Len(jobs)
    /\ jobs[j].pc = "start"
    /\ urls' = UpdateRow(jobs[j].urlID, SetRunning(urls[jobs[j].urlID]))
    /\ jobs' = [jobs EXCEPT ![j].pc = "crawl"]
    /\ UNCHANGED <<target, page, doc, pc, ctx, linksToCheck, internal, external, i, wpc,
                   brokenDetail, wlen, semaphore, mu, wg, done, brokenLinks, ret, result, how,
                   failedAt, lateSpawn, atCancel, fetched, requests, broken_links, reqs, first,
                   sibling, clock>>

\* crawlAndUpdateURL, lines 112-143: CrawlURL returns and its outcome is stored
CrawlStore(j) ==
    /\ j \in 1..Len(jobs)
    /\ jobs[j].pc = "crawl"
    /\ \E out \in CrawlOutcomes(jobs[j].url) :
          IF out.err # Nil
          THEN /\ urls' = UpdateRow(jobs[j].urlID, StoreError(urls[jobs[j].urlID], out.err[1]))
               /\ jobs' = [jobs EXCEPT ![j].pc = "done", ![j].out = out]
          ELSE /\ urls' = UpdateRow(jobs[j].urlID, StoreResult(urls[jobs[j].urlID], out.res[1]))
               /\ jobs' = [jobs EXCEPT ![j].out = out, ![j].k = 1,
                                       ![j].pc = IF out.res[1].BrokenLinksDetails = <<>>
                                                 THEN "done" ELSE "insert"]
    /\ UNCHANGED <<target, page, doc, pc, ctx, linksToCheck, internal, external, i, wpc,
                   brokenDetail, wlen, semaphore, mu, wg, done, brokenLinks, ret, result, how,
                   failedAt, lateSpawn, atCancel, fetched, requests, broken_links, reqs, first,
                   sibling, clock>>

\* crawlAndUpdateURL, lines 146-151: one iteration; the foreign key of broken_links rejects
\* the INSERT when the urls row is gone, and the error is dropped
CrawlInsert(j) ==
    /\ j \in 1..Len(jobs)
    /\ jobs[j].pc = "insert"
    /\ LET list == jobs[j].out.res[1].BrokenLinksDetails
       IN  /\ broken_links' = IF RowExists(jobs[j].urlID)
                              THEN Append(broken_links, BrokenLinkRow(jobs[j].urlID, list[jobs[j].k]))
                              ELSE broken_links
           /\ jobs' = [jobs EXCEPT ![j].k = jobs[j].k + 1,
                                   ![j].pc = IF jobs[j].k = Len(list) THEN "done" ELSE "insert"]
    /\ UNCHANGED <<target, page, doc, pc, ctx, linksToCheck, internal, external, i, wpc,
                   brokenDetail, wlen, semaphore, mu, wg, done, brokenLinks, ret, result, how,
                   failedAt, lateSpawn, atCancel, fetched, requests, urls, reqs, first, sibling,
                   clock>>

crawlAndUpdateURL(j) == CrawlBegin(j) \/ CrawlStore(j) \/ CrawlInsert(j)

\* ReanalyzeUrl, lines 371-396: up to the SELECT of line 384
ReanalyzeUrl(user, param) ==
    /\ MayArrive
    /\ LET id == ColumnInt(param) IN
       IF ~Authenticated(user)
       THEN reqs' = Append(reqs, [Respond("ReanalyzeUrl", user, 401) EXCEPT !.param = param])
       ELSE IF Owns(user, id)
       THEN reqs' = Append(reqs, [Request("ReanalyzeUrl", user, "", <<Item(id)>>, "update", 0)
                                     EXCEPT !.param = param])
       ELSE reqs' = Append(reqs, [Respond("ReanalyzeUrl", user, 404) EXCEPT !.param = param])
    /\ UNCHANGED <<target, page, doc, pc, ctx, linksToCheck, internal, external, i, wpc,
                   brokenDetail, wlen, semaphore, mu, wg, done, brokenLinks, ret, result, how,
                   failedAt, lateSpawn, atCancel, fetched, requests, urls, broken_links, jobs,
                   first, sibling, clock>>

\* ReanalyzeUrl, lines 398-408
ReanalyzeUpdate(r) ==
    /\ r \in 1..Len(reqs)
    /\ reqs[r].op = "ReanalyzeUrl"
    /\ reqs[r].pc = "update"
    /\ urls' = UpdateRow(reqs[r].items[1].ID, SetQueued(urls[reqs[r].items[1].ID]))
    /\ reqs' = [reqs EXCEPT ![r].pc = "delete"]
    /\ UNCHANGED <<target, page, doc, pc, ctx, linksToCheck, internal, external, i, wpc,
                   brokenDetail, wlen, semaphore, mu, wg, done, brokenLinks, ret, result, how,
                   failedAt, lateSpawn, atCancel, fetched, requests, broken_links, jobs, first,
                   sibling, clock>>

\* ReanalyzeUrl, lines 410-422
ReanalyzeGo(r) ==
    /\ r \in 1..Len(reqs)
    /\ reqs[r].op = "ReanalyzeUrl"
    /\ reqs[r].pc = "delete"
    /\ broken_links' = ClearBrokenLinks(reqs[r].items[1].ID)
    /\ jobs' = Go(reqs[r].items[1].ID, reqs[r].items[1].URL)
    /\ reqs' = [reqs EXCEPT ![r].items = <<>>, ![r].pc = "done", ![r].code = 200]
    /\ UNCHANGED <<target, page, doc, pc, ctx, linksToCheck, internal, external, i, wpc,
                   brokenDetail, wlen, semaphore, mu, wg, done, brokenLinks, ret, result, how,
                   failedAt, lateSpawn, atCancel, fetched, requests, urls, first, sibling,
                   clock>>

\* BulkReanalyze, lines 482-544: up to the SELECT of line 522; items holds the rows found.
\* A body that does not bind, or without ids, is the empty set of ids
BulkReanalyze(user, ids) ==
    /\ MayArrive
    /\ LET sel == SortedSeq({id \in ids : Owns(user, id)})
           found == [n \in 1..Len(sel) |-> Item(sel[n])]
       IN  reqs' = Append(reqs, IF ~Authenticated(user)
                                THEN Respond("BulkReanalyze", user, 401)
                                ELSE IF ids = {}
                                THEN Respond("BulkReanalyze", user, 400)
                                ELSE IF found = <<>>
                                THEN Request("BulkReanalyze", user, "", found, "done", 200)
                                ELSE Request("BulkReanalyze", user, "", found, "update", 0))
    /\ UNCHANGED <<target, page, doc, pc, ctx, linksToCheck, internal, external, i, wpc,
                   brokenDetail, wlen, semaphore, mu, wg, done, brokenLinks, ret, result, how,
                   failedAt, lateSpawn, atCancel, fetched, requests, urls, broken_links, jobs,
                   first, sibling, clock>>

\* BulkReanalyze, lines 547-551: the UPDATE for the first row still to be queued
BulkUpdate(r) ==
    /\ r \in 1..Len(reqs)
    /\ reqs[r].op = "BulkReanalyze"
    /\ reqs[r].pc = "update"
    /\ urls' = UpdateRow(reqs[r].items[1].ID, SetQueued(urls[reqs[r].items[1].ID]))
    /\ reqs' = [reqs EXCEPT ![r].pc = "delete"]
    /\ UNCHANGED <<target, page, doc, pc, ctx, linksToCheck, internal, external, i, wpc,
                   brokenDetail, wlen, semaphore, mu, wg, done, brokenLinks, ret, result, how,
                   failedAt, lateSpawn, atCancel, fetched, requests, broken_links, jobs, first,
                   sibling, clock>>

\* BulkReanalyze, lines 552-563: the DELETE and the go statement for that row, then the
\* next row or the response; the url is the one the SELECT of line 522 has read
BulkGo(r) ==
    /\ r \in 1..Len(reqs)
    /\ reqs[r].op = "BulkReanalyze"
    /\ reqs[r].pc = "delete"
    /\ broken_links' = ClearBrokenLinks(reqs[r].items[1].ID)
    /\ jobs' = Go(reqs[r].items[1].ID, reqs[r].items[1].URL)
    /\ reqs' = [reqs EXCEPT ![r].items = Tail(reqs[r].items),
                            ![r].pc = IF Len(reqs[r].items) = 1 THEN "done" ELSE "update",
                            ![r].code = IF Len(reqs[r].items) = 1 THEN 200 ELSE 0]
    /\ UNCHANGED <<target, page, doc, pc, ctx, linksToCheck, internal, external, i, wpc,
                   brokenDetail, wlen, semaphore, mu, wg, done, brokenLinks, ret, result, how,
                   failedAt, lateSpawn, atCancel, fetched, requests, urls, first, sibling,
                   clock>>

\* DeleteUrl, lines 337-368: one DELETE; broken_links rows go with the row (ON DELETE
\* CASCADE).  For a parameter that spells no number the statement deletes nothing, or in
\* strict SQL mode fails
DeleteUrl(user, param) ==
    /\ MayArrive
    /\ LET id == ColumnInt(param) IN
       IF ~Authenticated(user)
       THEN /\ reqs' = Append(reqs, [Respond("DeleteUrl", user, 401) EXCEPT !.param = param])
            /\ UNCHANGED <<urls, broken_links>>
       ELSE IF Owns(user, id)
       THEN /\ urls' = [urls EXCEPT ![id] = NoRow]
            /\ broken_links' = ClearBrokenLinks(id)
            /\ reqs' = Append(reqs, [Respond("DeleteUrl", user, 200) EXCEPT !.param = param])
       ELSE /\ \E code \in (IF Numeric(param) THEN {404} ELSE {404, 500}) :
                  reqs' = Append(reqs, [Respond("DeleteUrl", user, code) EXCEPT !.param = param])
            /\ UNCHANGED <<urls, broken_links>>
    /\ UNCHANGED <<target, page, doc, pc, ctx, linksToCheck, internal, external, i, wpc,
                   brokenDetail, wlen, semaphore, mu, wg, done, brokenLinks, ret, result, how,
                   failedAt, lateSpawn, atCancel, fetched, requests, jobs, first, sibling,
                   clock>>

\* a request arrives
Arrive ==
    \/ \E user \in Users, url \in AddedUrls : AddUrl(user, url)
    \/ \E user \in Users, id \in RowIds : ReanalyzeUrl(user, IdParam(id))
    \/ \E user \in Users, ids \in (SUBSET RowIds) \ {{}} : BulkReanalyze(user, ids)
    \/ \E user \in Users, id \in RowIds : DeleteUrl(user, IdParam(id))

\* a handler goroutine goes on
Handle ==
    \E r \in RequestIds :
        AddUrlInsert(r) \/ ReanalyzeUpdate(r) \/ ReanalyzeGo(r) \/ BulkUpdate(r) \/ BulkGo(r)

\* a background goroutine goes on
Background == \E j \in JobIds : crawlAndUpdateURL(j)

NextRows == Arrive \/ Handle \/ Background

SpecRows == InitRows /\ [][NextRows]_vars

\* handler and background goroutines are scheduled fairly; requests arrive or do not
LiveRows == InitRows /\ [][NextRows]_vars /\ WF_vars(Handle) /\ WF_vars(Background)


-----------------------------------------------------------------------------
(* The reading handlers and BulkDelete, and every caller *)

\* Go's int: the largest and the smallest value, and the value an operation wraps to
MaxInt == 2^(IntBits - 1) - 1
MinInt == 0 - 2^(IntBits - 1)
Wrap(n) == ((n - MinInt) % 2^IntBits) + MinInt

\* a query parameter: missing, a text that is no number ("" or "abc"), or a decimal number
Missing == [present |-> FALSE, numeric |-> FALSE, n |-> 0]
Text == [present |-> TRUE, numeric |-> FALSE, n |-> 0]
Num(n) == [present |-> TRUE, numeric |-> TRUE, n |-> n]
PageQueries == {Missing, Text, Num(0), Num(2), Num(MaxInt), Num(MaxInt + 1)}
LimitQueries == {Missing, Text, Num(0), Num(1), Num(100), Num(101)}

\* c.DefaultQuery(key, def), lines 165-166
DefaultQuery(q, def) == IF q.present THEN q ELSE Num(def)

\* strconv.Atoi with its error dropped (lines 165-166): 0 for a text, the nearest int for a
\* number out of range
Atoi(q) ==
    IF ~q.numeric THEN 0
    ELSE IF q.n > MaxInt THEN MaxInt
    ELSE IF q.n < MinInt THEN MinInt
    ELSE q.n

\* the limit taken as it comes
NormalLimitUnchecked(limit) == limit

\* lines 170-172
NormalPage(pageNo) == IF pageNo < 1 THEN 1 ELSE pageNo

\* lines 173-175
NormalLimit(limit) == IF limit < 1 \/ limit > 100 THEN 10 ELSE limit

\* line 177
Offset(pageNo, limit) == Wrap((pageNo - 1) * limit)

\* line 261
Pages(total, limit) == Wrap(total + limit - 1) \div limit

\* the ids of the rows of a user, the newest first (ORDER BY created_at DESC)
RECURSIVE Reverse(_)
Reverse(s) == IF s = <<>> THEN <<>> ELSE Append(Reverse(Tail(s)), Head(s))
RowsOf(user) == Reverse(SortedSeq({id \in 1..Len(urls) : Owns(user, id)}))

\* LIMIT ? OFFSET ? of line 209
Slice(s, limit, offset) ==
    IF offset >= Len(s) THEN <<>> ELSE SubSeq(s, offset + 1, Min(offset + limit, Len(s)))

\* GetUrls, lines 155-219: the page parameters and the COUNT of line 211
GetUrls(user, pageQ, limitQ) ==
    /\ MayArrive
    /\ LET pageNo == NormalPage(Atoi(DefaultQuery(pageQ, 1)))
           limit == NormalLimit(Atoi(DefaultQuery(limitQ, 10)))
       IN  reqs' = Append(reqs,
                 IF ~Authenticated(user) THEN Respond("GetUrls", user, 401)
                 ELSE [Request("GetUrls", user, "", <<>>, "select", 0) EXCEPT
                          !.paging = Ptr([pageQ |-> pageQ, limitQ |-> limitQ, page |-> pageNo,
                                          limit |-> limit, offset |-> Offset(pageNo, limit),
                                          total |-> Len(RowsOf(user)), pages |-> 0])])
    /\ UNCHANGED <<target, page, doc, pc, ctx, linksToCheck, internal, external, i, wpc,
                   brokenDetail, wlen, semaphore, mu, wg, done, brokenLinks, ret, result, how,
                   failedAt, lateSpawn, atCancel, fetched, requests, urls, broken_links, jobs,
                   first, sibling, clock>>

\* GetUrls, lines 221-264: the SELECT of line 221, which MySQL rejects when the offset is
\* negative, and the response
GetUrlsSelect(r) ==
    /\ r \in 1..Len(reqs)
    /\ reqs[r].op = "GetUrls"
    /\ reqs[r].pc = "select"
    /\ LET p == reqs[r].paging[1] IN
       IF p.offset < 0
       THEN reqs' = [reqs EXCEPT ![r].pc = "done", ![r].code = 500]
       ELSE reqs' = [reqs EXCEPT ![r].pc = "done", ![r].code = 200,
                                 ![r].data = Slice(RowsOf(reqs[r].user), p.limit, p.offset),
                                 ![r].paging = Ptr([p EXCEPT !.pages = Pages(p.total, p.limit)])]
    /\ UNCHANGED <<target, page, doc, pc, ctx, linksToCheck, internal, external, i, wpc,
                   brokenDetail, wlen, semaphore, mu, wg, done, brokenLinks, ret, result, how,
                   failedAt, lateSpawn, atCancel, fetched, requests, urls, broken_links, jobs,
                   first, sibling, clock>>

\* GetUrlByID, lines 267-300: up to the SELECT of line 278
GetUrlByID(user, param) ==
    /\ MayArrive
    /\ LET id == ColumnInt(param) IN
       reqs' = Append(reqs,
                 IF ~Authenticated(user)
                 THEN [Respond("GetUrlByID", user, 401) EXCEPT !.param = param]
                 ELSE IF Owns(user, id)
                 THEN [Request("GetUrlByID", user, "", <<Item(id)>>, "links", 0)
                          EXCEPT !.param = param]
                 ELSE [Respond("GetUrlByID", user, 404) EXCEPT !.param = param])
    /\ UNCHANGED <<target, page, doc, pc, ctx, linksToCheck, internal, external, i, wpc,
                   brokenDetail, wlen, semaphore, mu, wg, done, brokenLinks, ret, result, how,
                   failedAt, lateSpawn, atCancel, fetched, requests, urls, broken_links, jobs,
                   first, sibling, clock>>

\* GetUrlByID, lines 302-332: the SELECT on broken_links and the response
GetUrlByIDLinks(r) ==
    /\ r \in 1..Len(reqs)
    /\ reqs[r].op = "GetUrlByID"
    /\ reqs[r].pc = "links"
    /\ LET id == reqs[r].items[1].ID
           found == SelectSeq(broken_links, LAMBDA b : b.url_id = id)
       IN  reqs' = [reqs EXCEPT ![r].pc = "done", ![r].code = 200, ![r].items = <<>>,
                                ![r].data = <<id>>,
                                ![r].links = [k \in 1..Len(found) |-> found[k].url_id]]
    /\ UNCHANGED <<target, page, doc, pc, ctx, linksToCheck, internal, external, i, wpc,
                   brokenDetail, wlen, semaphore, mu, wg, done, brokenLinks, ret, result, how,
                   failedAt, lateSpawn, atCancel, fetched, requests, urls, broken_links, jobs,
                   first, sibling, clock>>

\* BulkDelete, lines 426-479: one DELETE.  A body that does not bind, or without ids, is the
\* empty set of ids
BulkDelete(user, ids) ==
    /\ MayArrive
    /\ IF ~Authenticated(user)
       THEN /\ reqs' = Append(reqs, Respond("BulkDelete", user, 401))
            /\ UNCHANGED <<urls, broken_links>>
       ELSE IF ids = {}
       THEN /\ reqs' = Append(reqs, Respond("BulkDelete", user, 400))
            /\ UNCHANGED <<urls, broken_links>>
       ELSE /\ urls' = [id \in 1..Len(urls) |->
                          IF id \in ids /\ Owns(user, id) THEN NoRow ELSE urls[id]]
            /\ broken_links' = SelectSeq(broken_links,
                                         LAMBDA b : ~(b.url_id \in ids /\ Owns(user, b.url_id)))
            /\ reqs' = Append(reqs, Respond("BulkDelete", user, 200))
    /\ UNCHANGED <<target, page, doc, pc, ctx, linksToCheck, internal, external, i, wpc,
                   brokenDetail, wlen, semaphore, mu, wg, done, brokenLinks, ret, result, how,
                   failedAt, lateSpawn, atCancel, fetched, requests, jobs, first, sibling,
                   clock>>

\* GetStats, lines 567-606: the counts by status (line 578)
GetStats(user) ==
    /\ MayArrive
    /\ reqs' = Append(reqs,
                 IF ~Authenticated(user) THEN Respond("GetStats", user, 401)
                 ELSE [Request("GetStats", user, "", <<>>, "sum", 0)
                          EXCEPT !.data = RowsOf(user)])
    /\ UNCHANGED <<target, page, doc, pc, ctx, linksToCheck, internal, external, i, wpc,
                   brokenDetail, wlen, semaphore, mu, wg, done, brokenLinks, ret, result, how,
                   failedAt, lateSpawn, atCancel, fetched, requests, urls, broken_links, jobs,
                   first, sibling, clock>>

\* GetStats, lines 608-617: the sum of broken_links over the completed rows, and the response
GetStatsSum(r) ==
    /\ r \in 1..Len(reqs)
    /\ reqs[r].op = "GetStats"
    /\ reqs[r].pc = "sum"
    /\ reqs' = [reqs EXCEPT ![r].pc = "done", ![r].code = 200]
    /\ UNCHANGED <<target, page, doc, pc, ctx, linksToCheck, internal, external, i, wpc,
                   brokenDetail, wlen, semaphore, mu, wg, done, brokenLinks, ret, result, how,
                   failedAt, lateSpawn, atCancel, fetched, requests, urls, broken_links, jobs,
                   first, sibling, clock>>

\* a request of any caller arrives, with any id, any set of ids and any page parameters
ArriveAny ==
    \/ \E user \in Callers, url \in AddedUrls \cup {""} : AddUrl(user, url)
    \/ \E user \in Callers, pageQ \in PageQueries, limitQ \in LimitQueries :
          GetUrls(user, pageQ, limitQ)
    \/ \E user \in Callers, param \in IdParams : GetUrlByID(user, param)
    \/ \E user \in Callers, param \in IdParams : DeleteUrl(user, param)
    \/ \E user \in Callers, param \in IdParams : ReanalyzeUrl(user, param)
    \/ \E user \in Callers, ids \in SUBSET RowIds : BulkDelete(user, ids)
    \/ \E user \in Callers, ids \in SUBSET RowIds : BulkReanalyze(user, ids)
    \/ \E user \in Callers : GetStats(user)

\* a reading handler goes on
HandleRead == \E r \in RequestIds : GetUrlsSelect(r) \/ GetUrlByIDLinks(r) \/ GetStatsSum(r)

NextApi == ArriveAny \/ Handle \/ HandleRead \/ Background

\* every handler, called by authenticated and unauthenticated callers
SpecApi == InitRows /\ [][NextApi]_vars

-----------------------------------------------------------------------------
(* CrawlURL called again for the same target, as crawlAndUpdateURL does at    *)
(* line 112 of the handlers for each analysis of a row                        *)

\* the goroutines of the call are over
WorkersOver == \A w \in Workers : wpc[w] \in {"none", "exit"}

\* Again with the accumulator of line 227 kept from the first call, as a package-level
\* variable would be
AgainKeepsList ==
    /\ pc = "returned"
    /\ first = Nil
    /\ WorkersOver
    /\ first' = Ptr([result |-> result, how |-> how, ctx |-> ctx])
    /\ pc' = "start"
    /\ ctx' = "live"
    /\ linksToCheck' = <<>>
    /\ internal' = 0
    /\ external' = 0
    /\ i' = 0
    /\ wpc' = [w \in Workers |-> "none"]
    /\ brokenDetail' = [w \in Workers |-> Nil]
    /\ wlen' = [w \in Workers |-> 0]
    /\ semaphore' = 0
    /\ mu' = 0
    /\ wg' = 0
    /\ done' = "none"
    /\ brokenLinks' = brokenLinks
    /\ ret' = <<>>
    /\ result' = NoResult
    /\ how' = "none"
    /\ failedAt' = "none"
    /\ lateSpawn' = {}
    /\ atCancel' = <<>>
    /\ fetched' = NoFetch
    /\ requests' = [GET |-> 0, HEAD |-> 0]
    /\ UNCHANGED <<target, page, doc, urls, broken_links, jobs, reqs, sibling, clock>>

\* a second call of CrawlURL(target) begins after the first has returned and its workers
\* have ended: every local of lines 87-237 is created anew
Again ==
    /\ pc = "returned"
    /\ first = Nil
    /\ WorkersOver
    /\ first' = Ptr([result |-> result, how |-> how, ctx |-> ctx])
    /\ pc' = "start"
    /\ ctx' = "live"
    /\ linksToCheck' = <<>>
    /\ internal' = 0
    /\ external' = 0
    /\ i' = 0
    /\ wpc' = [w \in Workers |-> "none"]
    /\ brokenDetail' = [w \in Workers |-> Nil]
    /\ wlen' = [w \in Workers |-> 0]
    /\ semaphore' = 0
    /\ mu' = 0
    /\ wg' = 0
    /\ done' = "none"
    /\ brokenLinks' = <<>>
    /\ ret' = <<>>
    /\ result' = NoResult
    /\ how' = "none"
    /\ failedAt' = "none"
    /\ lateSpawn' = {}
    /\ atCancel' = <<>>
    /\ fetched' = NoFetch
    /\ requests' = [GET |-> 0, HEAD |-> 0]
    /\ UNCHANGED <<target, page, doc, urls, broken_links, jobs, reqs, sibling, clock>>

NextTwice == Next \/ Again

\* two calls of CrawlURL in a row, for the pages of Init and for every small document
SpecTwice == InitSmallDocuments /\ [][NextTwice]_vars

-----------------------------------------------------------------------------
(* A sibling call of CrawlURL running at the same time, as the goroutines    *)
(* BulkReanalyze starts at lines 546-558 of the handlers do.  Its page has   *)
(* one link; its steps are those of CrawlURL and of one worker.              *)

\* lines 111-207 of the sibling: fetch, parse, collect the link
SiblingParse ==
    /\ sibling.pc = "start"
    /\ sibling' = [sibling EXCEPT !.pc = "probe", !.linksToCheck = <<UrlSiblingGone>>]
    /\ UNCHANGED <<target, page, doc, pc, ctx, linksToCheck, internal, external, i, wpc,
                   brokenDetail, wlen, semaphore, mu, wg, done, brokenLinks, ret, result, how,
                   failedAt, lateSpawn, atCancel, fetched, requests, urls, broken_links, jobs,
                   reqs, first, clock>>

\* line 260 of the sibling's worker
SiblingProbe ==
    /\ sibling.pc = "probe"
    /\ sibling' = [sibling EXCEPT
                      !.pc = "lock",
                      !.brokenDetail = checkSingleLink(sibling.linksToCheck[1],
                                                       Serve(sibling.linksToCheck[1]), FALSE)]
    /\ UNCHANGED <<target, page, doc, pc, ctx, linksToCheck, internal, external, i, wpc,
                   brokenDetail, wlen, semaphore, mu, wg, done, brokenLinks, ret, result, how,
                   failedAt, lateSpawn, atCancel, fetched, requests, urls, broken_links, jobs,
                   reqs, first, clock>>

\* the sibling's worker appending to the accumulator of the other call, as it would were
\* brokenLinks a package-level variable
SiblingAppendShared ==
    /\ sibling.pc = "lock"
    /\ sibling' = [sibling EXCEPT !.pc = "select"]
    /\ brokenLinks' = Append(brokenLinks, sibling.brokenDetail[1])
    /\ UNCHANGED <<target, page, doc, pc, ctx, linksToCheck, internal, external, i, wpc,
                   brokenDetail, wlen, semaphore, mu, wg, done, ret, result, how, failedAt,
                   lateSpawn, atCancel, fetched, requests, urls, broken_links, jobs, reqs,
                   first, clock>>

\* lines 261-263 of the sibling's worker: its own mutex, its own slice
SiblingAppend ==
    /\ sibling.pc = "lock"
    /\ sibling.mu = 0
    /\ sibling' = [sibling EXCEPT
                      !.pc = "select",
                      !.brokenLinks = Append(sibling.brokenLinks, sibling.brokenDetail[1])]
    /\ UNCHANGED <<target, page, doc, pc, ctx, linksToCheck, internal, external, i, wpc,
                   brokenDetail, wlen, semaphore, mu, wg, done, brokenLinks, ret, result, how,
                   failedAt, lateSpawn, atCancel, fetched, requests, urls, broken_links, jobs,
                   reqs, first, clock>>

\* lines 276-277 and 212-222 of the sibling
SiblingReturn ==
    /\ sibling.pc = "select"
    /\ sibling' = [sibling EXCEPT !.pc = "returned",
                                  !.result = CrawlResult(0, 1, sibling.brokenLinks)]
    /\ UNCHANGED <<target, page, doc, pc, ctx, linksToCheck, internal, external, i, wpc,
                   brokenDetail, wlen, semaphore, mu, wg, done, brokenLinks, ret, result, how,
                   failedAt, lateSpawn, atCancel, fetched, requests, urls, broken_links, jobs,
                   reqs, first, clock>>

Sibling ==
    \/ SiblingParse
    \/ SiblingProbe
    \/ SiblingAppend
    \/ SiblingReturn

NextSiblings == Next \/ Sibling

\* a call of CrawlURL for the pages of Init, and a sibling call
SpecSiblings == Init /\ [][NextSiblings]_vars

-----------------------------------------------------------------------------
(* CrawlURL with its three timers.  Time passes only while the main goroutine waits: for
   the response and its body (lines 111-142) and in the select of line 275.  Statements
   that compute take no time. *)

\* line 89: context.WithTimeout(..., 90*time.Second)
CtxTimeout == 90

\* a client whose timeout is that of the context and the timer together
ClientTimeoutLong == CtxTimeout + TimerWait

\* line 94: http.Client{Timeout: 60 * time.Second}, which covers the reading of the body
ClientTimeout == 60

\* the clock advances by the shortest of the three durations
Step == TimerWait

\* the main goroutine waits for the network or in the select
Waiting == pc \in {"fetch", "parse", "select"}

\* time passes, unless a timer that is due has not yet had its effect
Tick ==
    /\ Waiting
    /\ clock.now < CtxTimeout
    /\ pc \in {"fetch", "parse"} => clock.now < ClientTimeout
    /\ pc = "select" => clock.waited < TimerWait
    /\ clock' = [now |-> clock.now + Step,
                 waited |-> IF pc = "select" THEN clock.waited + Step ELSE clock.waited]
    /\ UNCHANGED <<target, page, doc, pc, ctx, linksToCheck, internal, external, i, wpc,
                   brokenDetail, wlen, semaphore, mu, wg, done, brokenLinks, ret, result, how,
                   failedAt, lateSpawn, atCancel, fetched, requests, urls, broken_links, jobs,
                   reqs, first, sibling>>

\* the step is one the timers allow: the context expires at its deadline, the timer of
\* line 279 fires when it has run its time
Timely ==
    /\ (ctx = "live" /\ ctx' = "expired") => clock.now = CtxTimeout
    /\ (pc = "select" /\ pc' = "assemble" /\ how' = "timer") => clock.waited = TimerWait

NextTimed ==
    \/ Tick
    \/ Main /\ Timely
    \/ WaitClose
    \/ CtxExpire /\ Timely
    \/ \E w \in Workers : Worker(w)

\* pages of at most MaxLinks links, with the clock
SpecTimed == Init /\ [][NextTimed]_vars
-----------------------------------------------------------------------------
(* Vocabulary of the properties *)

\* workers that hold a semaphore slot and are inside checkSingleLink
InFlight == {w \in Workers : wpc[w] = "probe"}

\* the HEAD of u errors or answers with a status >= 400
BrokenTarget(u) == Serve(u).err # Nil \/ Serve(u).StatusCode >= 400

\* the HEAD of u answers with a status < 400
ReachableTarget(u) == Serve(u).err = Nil /\ Serve(u).StatusCode < 400

\* number of entries of the list for the URL u
EntriesFor(list, u) == Cardinality({k \in 1..Len(list) : list[k].URL = u})

\* an entry a worker has recorded: the detail of one of the links
Recorded(e) == e.URL \in Range(linksToCheck) /\ (e.StatusCode # Nil \/ e.Error # "")

\* the broken-link list of the CrawlResult that CrawlURL returned
ReturnedList == result.res[1].BrokenLinksDetails

\* CrawlURL has returned a CrawlResult
Succeeded == pc = "returned" /\ result.res # Nil

\* the step in which checkBrokenLinks returns
ReturnStep == pc \in {"loop", "select"} /\ pc' = "assemble"

\* checkBrokenLinks has returned because the context was done
ReturnedOnCancel == pc \in {"assemble", "returned"} /\ how \in {"loop", "ctx"}

\* checkBrokenLinks has returned on its timer or because the context was done
ReturnedOnDeadline == pc \in {"assemble", "returned"} /\ how \in {"loop", "ctx", "timer"}

-----------------------------------------------------------------------------
(* C1 *)

\* C1: at every moment the number of probes in flight (workers holding a semaphore slot
\* inside checkSingleLink) is at most 10 and at most the number of links.
C1_InFlightBounded ==
    /\ Cardinality(InFlight) <= 10
    /\ Cardinality(InFlight) <= Len(linksToCheck)

\* ten probes are in flight and a further worker waits for a slot
C1_Witness ==
    /\ Cardinality(InFlight) = 10
    /\ \E w \in Workers : wpc[w] = "acquire"

-----------------------------------------------------------------------------
(* C2 *)

\* C2: when every worker has finished before any deadline, the list checkBrokenLinks
\* returns holds exactly one entry for each link occurrence whose HEAD errored or answered
\* with a status >= 400, and no other entry; an entry for an answered HEAD carries the status.
C2_ExactEntries ==
    (pc = "assemble" /\ how = "done" /\ ctx = "live") =>
        /\ \A u \in Urls :
              EntriesFor(ret, u) = IF BrokenTarget(u) THEN Count(linksToCheck, u) ELSE 0
        /\ \A k \in 1..Len(ret) :
              /\ ret[k].URL \in Urls
              /\ Serve(ret[k].URL).err = Nil => ret[k].StatusCode = Ptr(Serve(ret[k].URL).StatusCode)

\* more links than the cap, one of them answering 404: the list is that one entry
C2_Witness ==
    /\ pc = "assemble" /\ how = "done" /\ ctx = "live"
    /\ Len(linksToCheck) > 10
    /\ Len(ret) = 1
    /\ ret[1].StatusCode = Ptr(404)

-----------------------------------------------------------------------------
(* C3 *)

\* C3: the read of the shared slice that produces checkBrokenLinks' return value (lines
\* 243, 280, 283, 286; the main goroutine never takes the mutex) never happens while a
\* worker is inside its append, between mu.Lock() and mu.Unlock().
C3_ReturnReadNotDuringAppend ==
    [][ReturnStep => \A w \in Workers : wpc[w] \notin {"grow", "write"}]_vars

-----------------------------------------------------------------------------
(* C4 *)

\* C4: every CrawlURL invocation eventually returns, whatever the servers do.
C4_CrawlReturns == <>(pc = "returned")

\* CrawlURL has returned on the timer while a probe was still unanswered
C4_Witness ==
    /\ pc = "returned"
    /\ how = "timer"
    /\ \E w \in Workers : wpc[w] = "probe"

-----------------------------------------------------------------------------
(* C5 *)

\* C5: when checkBrokenLinks returns on a deadline, CrawlURL returns a CrawlResult and a nil
\* error, and the broken-link list holds only entries that workers have recorded.
C5_PartialResult ==
    (pc = "returned" /\ ReturnedOnDeadline) =>
        /\ result.err = Nil
        /\ result.res # Nil
        /\ \A k \in 1..Len(ReturnedList) : Recorded(ReturnedList[k])

-----------------------------------------------------------------------------
(* C6 *)

\* C6: once the fetch and the parse have succeeded no stage fails any more: whatever the
\* probes end in, CrawlURL returns a CrawlResult and a nil error.
C6_ProbeFailuresNeverAbort ==
    /\ pc \in {"loop", "spawn", "select", "assemble"} => failedAt = "none" /\ result = NoResult
    /\ (pc = "returned" /\ failedAt = "none") => result.err = Nil /\ result.res # Nil

\* a successful result whose list holds a transport failure and a status >= 400
C6_Witness ==
    /\ Succeeded
    /\ result.err = Nil
    /\ \E k \in 1..Len(ReturnedList) : ReturnedList[k].Error = "Connection refused"
    /\ \E k \in 1..Len(ReturnedList) : ReturnedList[k].StatusCode = Ptr(404)

-----------------------------------------------------------------------------
(* C7 *)

\* C7: CrawlURL returns exactly one of a CrawlResult and an error; when a stage up to the
\* parse fails the error is non-nil and the result nil.
C7_ResultXorError ==
    pc = "returned" =>
        /\ (result.res = Nil) # (result.err = Nil)
        /\ failedAt # "none" => result.res = Nil /\ result.err # Nil
        /\ result.res # Nil => result.err = Nil

\* the parse has failed
C7_Witness ==
    /\ pc = "returned"
    /\ failedAt = "parse"
    /\ result = CrawlError("parsing error")

-----------------------------------------------------------------------------
(* C8 *)

\* the entries complete when the context became done are in the list checkBrokenLinks
\* returned on the cancellation
KeepsEntries ==
    (pc = "assemble" /\ ReturnedOnCancel) =>
        \A k \in 1..Len(atCancel) :
            atCancel[k] # ZeroDetail => k <= Len(ret) /\ ret[k] = atCancel[k]

\* a worker that holds no slot when the context is done never starts a HEAD
NoNewProbe == \A w \in Workers : wpc'[w] = "probe" => wpc[w] = "probe"

\* C8 as stated: once the context is done no further worker is spawned, no worker without
\* a slot issues a HEAD, and the entries appended before are returned.
C8_NoSpawnAfterCancel ==
    [][(ctxDone => i' = i /\ NoNewProbe) /\ KeepsEntries']_vars

\* C8 amended: once the context is done at most one further worker is spawned (the one
\* whose check of line 241 had passed), no worker without a slot issues a HEAD, and the
\* entries appended before are returned.
C8_AtMostOneLateSpawn ==
    [][/\ ctxDone => (i' # i => pc = "spawn" /\ lateSpawn = {}) /\ NoNewProbe
       /\ Cardinality(lateSpawn') <= 1
       /\ KeepsEntries']_vars

\* the context expired after an entry was appended and before the second worker was
\* spawned; that worker gave up and the entry was returned
C8_Witness ==
    /\ Succeeded
    /\ how = "ctx"
    /\ lateSpawn = {2}
    /\ wpc[2] = "exit"
    /\ Len(atCancel) = 1 /\ atCancel[1] # ZeroDetail
    /\ ReturnedList = atCancel

-----------------------------------------------------------------------------
(* C9 *)

\* the error of a detail stems from the target's own answer, not from the context
OwnAnswer(u, d) ==
    /\ BrokenTarget(u)
    /\ d.URL = u
    /\ d.Error # ErrCtxCanceled
    /\ d.Error = "Link check timeout" => Serve(u).err = Ptr(ErrClientTimeout)

-----------------------------------------------------------------------------
(* C10 *)

\* C10: a link whose HEAD answers with a status < 400 is in no broken-link list, and when
\* every link answers so the returned list is empty.
C10_ReachableOmitted ==
    /\ \A k \in 1..Len(brokenLinks) : brokenLinks[k] = ZeroDetail \/ ~ReachableTarget(brokenLinks[k].URL)
    /\ \A w \in Workers : brokenDetail[w] # Nil => ~ReachableTarget(brokenDetail[w][1].URL)
    /\ Succeeded =>
          /\ \A k \in 1..Len(ReturnedList) :
                ReturnedList[k] = ZeroDetail \/ ~ReachableTarget(ReturnedList[k].URL)
          /\ (\A k \in 1..Len(linksToCheck) : ReachableTarget(linksToCheck[k])) => ReturnedList = <<>>

\* more links than the cap, every one answering 200: the returned list is empty
C10_Witness ==
    /\ Succeeded
    /\ Len(linksToCheck) > 10
    /\ \A k \in 1..Len(linksToCheck) : linksToCheck[k] = UrlUp
    /\ ReturnedList = <<>>

-----------------------------------------------------------------------------
(* Vocabulary of the properties about anchors *)

\* the hrefs that resolve to an http or https URL against the target, and what they resolve to
HttpHrefs == {HrefAbsPath, HrefRelPath, HrefFragment, HrefUpper} \cup Urls

\* the hrefs that are empty, unparseable, or resolve to another scheme
OtherHrefs == {HrefEmpty, HrefBad, HrefMail, HrefTel, HrefScript}

\* the absolute URL an http href stands for on the target page
Resolved(h) ==
    CASE h = HrefAbsPath -> UrlUp
      [] h = HrefRelPath -> UrlGone
      [] h = HrefFragment -> UrlTop
      [] h = HrefUpper -> UrlUpper
      [] OTHER -> h

\* the anchors of the page that are links, in document order
HttpAnchors == {k \in 1..Len(page) : page[k] \in HttpHrefs}

\* the anchor loop of lines 173-202 has run
Classified ==
    \/ pc \in {"loop", "spawn", "select", "assemble"}
    \/ pc = "returned" /\ failedAt = "none"

\* host names compared without regard to case
LowerHost(h) == IF h = "SITE" THEN "site" ELSE h

-----------------------------------------------------------------------------
(* C11 *)

\* C11: for a page with N anchors whose href resolves to an http/https URL and M anchors
\* whose href is empty, unparseable or of another scheme, internal + external = N, exactly
\* N links are handed to the prober, and the result reports the same counts.
C11_OnlyHttpCounted ==
    Classified =>
        /\ internal + external = Cardinality(HttpAnchors)
        /\ Len(linksToCheck) = Cardinality(HttpAnchors)
        /\ \A k \in 1..Len(linksToCheck) : \E a \in HttpAnchors : linksToCheck[k] = Resolved(page[a])
        /\ Succeeded =>
              result.res[1].InternalLinks + result.res[1].ExternalLinks = Cardinality(HttpAnchors)

\* a page with one link and one anchor of another scheme has been analysed
C11_Witness ==
    /\ Succeeded
    /\ Len(page) = 2
    /\ page[1] \in {HrefMail, HrefTel, HrefScript}
    /\ page[2] = HrefAbsPath
    /\ result.res[1].InternalLinks = 1
    /\ result.res[1].ExternalLinks = 0
    /\ linksToCheck = <<UrlUp>>

-----------------------------------------------------------------------------
(* C12 *)

\* C12: a URL that k anchors resolve to is k times in the list handed to the prober and adds
\* k to the counts; when all probes have finished, k HEAD requests were made for k links
\* and a broken URL is k times in the returned list.
C12_NoDeduplication ==
    Classified =>
        /\ \A u \in {Resolved(h) : h \in HttpHrefs} :
              Count(linksToCheck, u) = Cardinality({k \in HttpAnchors : Resolved(page[k]) = u})
        /\ internal + external = Len(linksToCheck)
        /\ (pc = "assemble" /\ how = "done" /\ ctx = "live") =>
              /\ requests.HEAD = Len(linksToCheck)
              /\ \A u \in Range(linksToCheck) :
                    BrokenTarget(u) => EntriesFor(ret, u) = Count(linksToCheck, u)

\* one broken URL in two anchors, written once as a relative and once as an absolute href
C12_Witness ==
    /\ Succeeded
    /\ page = <<HrefRelPath, UrlGone>>
    /\ result.res[1].InternalLinks = 2
    /\ requests.HEAD = 2
    /\ Len(ReturnedList) = 2
    /\ ReturnedList[1].URL = UrlGone /\ ReturnedList[2].URL = UrlGone

-----------------------------------------------------------------------------
(* C13 *)

\* C13: for a page without anchors checkBrokenLinks is never entered and no HEAD request is
\* made, and CrawlURL returns InternalLinks = ExternalLinks = 0 and an empty list.
C13_NoAnchorsNoProbe ==
    page = <<>> =>
        /\ pc \notin {"loop", "spawn", "select"}
        /\ requests.HEAD = 0
        /\ \A w \in Workers : wpc[w] = "none"
        /\ Succeeded =>
              /\ result.res[1].InternalLinks = 0
              /\ result.res[1].ExternalLinks = 0
              /\ ReturnedList = <<>>

\* the page was fetched, it has no anchor, and the result is out
C13_Witness ==
    /\ Succeeded
    /\ page = <<>>
    /\ requests = [GET |-> 1, HEAD |-> 0]
    /\ ReturnedList = <<>>

-----------------------------------------------------------------------------
(* C14 *)

\* C14: the number of links counted Internal is the number of anchors whose resolved host
\* equals the target's host without regard to case, and the others are counted External.
C14_HostCaseInsensitive ==
    Classified =>
        LET base == urlParse(target).url
            same == {k \in HttpAnchors :
                        LowerHost(urlParse(Resolved(page[k])).url.Host) = LowerHost(base.Host)}
        IN  /\ internal = Cardinality(same)
            /\ external = Cardinality(HttpAnchors \ same)

-----------------------------------------------------------------------------
(* C15 *)

\* the targets that are no well-formed http URL
MalformedTargets == {TargetNoScheme, TargetUnparseable}

\* C15: for a malformed or unparseable target no request is put on the wire, the body is
\* never reached, and CrawlURL returns an error and a nil result.
C15_MalformedFailsFast ==
    target \in MalformedTargets =>
        /\ requests = [GET |-> 0, HEAD |-> 0]
        /\ pc \in {"start", "fetch", "returned"}
        /\ pc = "returned" => result.res = Nil /\ result.err # Nil

\* CrawlURL("invalid-url") has returned its error with nothing sent
C15_Witness ==
    /\ target = TargetNoScheme
    /\ pc = "returned"
    /\ result = CrawlError("network error")
    /\ requests.GET = 0

-----------------------------------------------------------------------------
(* C16 *)

\* C16: when the GET of the page is answered with a status >= 400 CrawlURL returns, in the
\* same step, a nil result and an error naming the status; nothing is parsed or probed.
C16_StatusFailsFetch ==
    (fetched.err = Nil /\ fetched.StatusCode >= 400) =>
        /\ pc = "returned"
        /\ result.res = Nil
        /\ fetched.StatusCode = 404 =>
              result.err = Ptr("website error: http://site/ returned 404 404 Not Found")
        /\ fetched.StatusCode = 500 =>
              result.err = Ptr("website error: http://site/ returned 500 500 Internal Server Error")
        /\ linksToCheck = <<>> /\ internal = 0 /\ external = 0
        /\ requests.HEAD = 0
        /\ \A w \in Workers : wpc[w] = "none"

\* a page with links was answered with 404
C16_Witness ==
    /\ fetched.err = Nil /\ fetched.StatusCode = 404
    /\ Len(page) > 0
    /\ pc = "returned"
    /\ result.err # Nil

-----------------------------------------------------------------------------
(* C17 *)

\* the category of a transport failure
Category(text) ==
    CASE text \in {ErrClientTimeout, ErrCtxDeadline} -> "website timeout"
      [] text = ErrNoHost -> "website not found"
      [] text = ErrRefused -> "connection refused"
      [] text = ErrCert -> "SSL certificate error"
      [] OTHER -> "network error"

-----------------------------------------------------------------------------
(* Vocabulary of the properties about rows *)

Pending == {"queued", "running"}
Terminal == {"completed", "error"}

\* the row exists before and after the step and its status changes from old to new
StatusChange(id, old, new) ==
    /\ RowExists(id) /\ RowExists(id)'
    /\ urls[id].status = old /\ urls'[id].status = new
    /\ old # new

\* the step of a handler
HandlerStep == reqs' # reqs

\* the step in which goroutine j stores what CrawlURL returned
Stores(j) == j \in 1..Len(jobs) /\ jobs[j].pc = "crawl"

\* a step of the loop of lines 146-151 in goroutine j
Inserts(j) == j \in 1..Len(jobs) /\ jobs[j].pc = "insert"

\* the rows of broken_links of the urls row id
BrokenLinksOf(id) == SelectSeq(broken_links, LAMBDA b : b.url_id = id)

-----------------------------------------------------------------------------
(* C18 *)

\* C18: every change of a row's status is queued -> running, running -> completed,
\* running -> error, or a reset to queued made by the step of a handler.
C18_StatusTransitions ==
    [][\A id \in RowIds : \A old, new \in Pending \cup Terminal :
          StatusChange(id, old, new) =>
              \/ new = "queued" /\ HandlerStep
              \/ old = "queued" /\ new = "running"
              \/ old = "running" /\ new \in Terminal]_vars

-----------------------------------------------------------------------------
(* C19 *)

-----------------------------------------------------------------------------
(* C20 *)

-----------------------------------------------------------------------------
(* C21 *)

\* the HTML version a doctype declares
DoctypeVersion(dt) ==
    IF dt = DoctypeHTML5 THEN "HTML5"
    ELSE IF dt = DoctypeHTML401 THEN "HTML 4.01 Strict"
    ELSE IF dt = DoctypeXHTML10 THEN "XHTML 1.0 Strict"
    ELSE "Unknown"

\* C21: the HtmlVersion of a returned CrawlResult is the version the document's doctype
\* declares: HTML5 for the short form, the legacy name for a legacy DTD, and Unknown, never
\* HTML5, when the doctype is absent or not recognised.
C21_HtmlVersionFromDoctype ==
    Succeeded => result.res[1].HtmlVersion = DoctypeVersion(doc.doctype)

-----------------------------------------------------------------------------
(* C22 *)

\* both calls of CrawlURL have returned a CrawlResult
BothSucceeded == Succeeded /\ first # Nil /\ first[1].result.res # Nil

\* no deadline passed during a call: checkBrokenLinks returned on done, or was not called,
\* and the context was live until the deferred cancel
Undisturbed(h, c) == h \in {"none", "done"} /\ c = "canceled"

\* the page structure of a CrawlResult
PageStructure(r) == <<r.HtmlVersion, r.Title, r.H1, r.H2, r.H3, r.HasLoginForm>>

\* the two lists hold the same entries, each as often as the other
SameEntries(a, b) ==
    /\ Len(a) = Len(b)
    /\ \A e \in Range(a) \cup Range(b) : Count(a, e) = Count(b, e)

\* the original statement: unless a deadline cut probing short, two calls on an unchanged
\* page return identical results, the broken-link list included
C22_SameResult ==
    BothSucceeded =>
        /\ PageStructure(result.res[1]) = PageStructure(first[1].result.res[1])
        /\ result.res[1].InternalLinks = first[1].result.res[1].InternalLinks
        /\ result.res[1].ExternalLinks = first[1].result.res[1].ExternalLinks
        /\ (Undisturbed(how, ctx) /\ Undisturbed(first[1].how, first[1].ctx))
              => result.res[1].BrokenLinksDetails = first[1].result.res[1].BrokenLinksDetails

\* C22: two calls of CrawlURL on an unchanged page return the same page structure and the
\* same internal and external counts; unless a deadline cut probing short in one of them,
\* their broken-link lists hold the same entries, in an order that may differ.
C22_SameResultUpToOrder ==
    BothSucceeded =>
        /\ PageStructure(result.res[1]) = PageStructure(first[1].result.res[1])
        /\ result.res[1].InternalLinks = first[1].result.res[1].InternalLinks
        /\ result.res[1].ExternalLinks = first[1].result.res[1].ExternalLinks
        /\ (Undisturbed(how, ctx) /\ Undisturbed(first[1].how, first[1].ctx))
              => SameEntries(result.res[1].BrokenLinksDetails,
                             first[1].result.res[1].BrokenLinksDetails)

\* two undisturbed calls on a page with two broken links returned the two entries in
\* opposite orders
C22_Witness ==
    /\ BothSucceeded
    /\ page = <<UrlGone, UrlRefused>>
    /\ Undisturbed(how, ctx) /\ Undisturbed(first[1].how, first[1].ctx)
    /\ Len(ReturnedList) = 2
    /\ ReturnedList[1].URL = UrlRefused
    /\ first[1].result.res[1].BrokenLinksDetails[1].URL = UrlGone

-----------------------------------------------------------------------------
(* C23 *)

\* the state of the call of CrawlURL: its argument, its locals, those of checkBrokenLinks
\* and of the workers, and its return values
OwnState ==
    <<target, page, doc, pc, ctx, linksToCheck, internal, external, i, wpc, brokenDetail, wlen,
      semaphore, mu, wg, done, brokenLinks, ret, result, fetched>>

\* no entry of the list is for a link of the other call's page
NoEntryOf(list, links) == \A k \in 1..Len(list) : list[k].URL \notin Range(links)

\* C23: two calls of CrawlURL running at the same time share nothing: a step of one leaves
\* every local and the result of the other as they are, and neither the accumulator nor
\* the result of a call ever holds an entry for a link of the other call's page.
C23_CallsIsolated ==
    [][/\ sibling' # sibling => OwnState' = OwnState
       /\ OwnState' # OwnState => sibling' = sibling
       /\ NoEntryOf(brokenLinks', sibling'.linksToCheck)
       /\ NoEntryOf(ret', sibling'.linksToCheck)
       /\ result'.res # Nil => NoEntryOf(result'.res[1].BrokenLinksDetails, sibling'.linksToCheck)
       /\ NoEntryOf(sibling'.brokenLinks, linksToCheck')
       /\ sibling'.result.res # Nil
             => NoEntryOf(sibling'.result.res[1].BrokenLinksDetails, linksToCheck')]_vars

\* both calls have returned, the call with the two entries of its page and the sibling with
\* the one entry of its own
C23_Witness ==
    /\ Succeeded
    /\ page = <<UrlGone, UrlRefused>>
    /\ Len(ReturnedList) = 2
    /\ sibling.pc = "returned"
    /\ Len(sibling.result.res[1].BrokenLinksDetails) = 1
    /\ sibling.result.res[1].BrokenLinksDetails[1].URL = UrlSiblingGone

-----------------------------------------------------------------------------
(* C24 *)

\* number of elements with the tag in the trees, at every depth
RECURSIVE Occurrences(_, _)
Occurrences(nodes, tag) ==
    IF nodes = <<>> THEN 0
    ELSE (IF Head(nodes).Data = tag THEN 1 ELSE 0)
         + Occurrences(Head(nodes).Children, tag) + Occurrences(Tail(nodes), tag)

\* C24: the H1, H2 and H3 of a returned CrawlResult are the numbers of h1, h2 and h3
\* elements of the document, whatever their attributes, nesting or position.
C24_HeadingCounts ==
    Succeeded =>
        /\ result.res[1].H1 = Occurrences(doc.body, "h1")
        /\ result.res[1].H2 = Occurrences(doc.body, "h2")
        /\ result.res[1].H3 = Occurrences(doc.body, "h3")

\* a document with an h1 with an attribute inside a div, followed by a plain h1, was
\* analysed: two h1
C24_Witness ==
    /\ Succeeded
    /\ doc.body = <<Element("div", {}, <<Element("h1", {<<"class", "big">>}, <<>>)>>),
                    Element("h1", {}, <<>>)>>
    /\ result.res[1].H1 = 2
    /\ result.res[1].H2 = 0

-----------------------------------------------------------------------------
(* C25 *)

\* ASCII lower case of an attribute value
ToLower(v) == IF v = "PASSWORD" THEN "password" ELSE v

\* an input element of type password: the type attribute of HTML is an enumerated
\* attribute, its keywords match without regard to case
PasswordInput(n) ==
    n.Data = "input" /\ \E a \in n.Attr : a[1] = "type" /\ ToLower(a[2]) = "password"

\* some password input is among the trees, below a form when inForm is FALSE
RECURSIVE PasswordInForm(_, _)
PasswordInForm(nodes, inForm) ==
    IF nodes = <<>> THEN FALSE
    ELSE \/ inForm /\ PasswordInput(Head(nodes))
         \/ PasswordInForm(Head(nodes).Children, inForm \/ Head(nodes).Data = "form")
         \/ PasswordInForm(Tail(nodes), inForm)

\* C25: the HasLoginForm of a returned CrawlResult is true exactly when an input element of
\* type password is a descendant of a form element.
C25_LoginFormIffPasswordInForm ==
    Succeeded => (result.res[1].HasLoginForm <=> PasswordInForm(doc.body, FALSE))

-----------------------------------------------------------------------------
(* C26 *)

\* a request arrives in the step; the request that arrives
Arrives == Len(reqs') = Len(reqs) + 1
Arrived == reqs'[Len(reqs')]

\* C26: a request without an authenticated user_id, to whichever URL handler, is answered
\* 401 by the handler's first step, which changes no row of urls or broken_links and starts
\* no background analysis; the request takes no further step.
C26_UnauthenticatedRejected ==
    [][/\ (Arrives /\ Arrived.user = NoUser)
             => /\ Arrived.code = 401
                /\ Arrived.pc = "done"
                /\ UNCHANGED <<urls, broken_links, jobs>>
       /\ \A r \in 1..Len(reqs) : reqs[r].user = NoUser => reqs'[r] = reqs[r]]_vars

\* a user has added a URL, and an unauthenticated DeleteUrl for its row was answered 401:
\* the row is still there
C26_Witness ==
    /\ Len(reqs) = 2
    /\ reqs[1].op = "AddUrl" /\ reqs[1].code = 201
    /\ reqs[2].op = "DeleteUrl" /\ reqs[2].user = NoUser /\ reqs[2].param = IdParam(1)
    /\ reqs[2].code = 401
    /\ RowExists(1)

-----------------------------------------------------------------------------
(* C27 *)

\* C27: a GetUrlByID, DeleteUrl or ReanalyzeUrl request of an authenticated user whose id
\* parameter spells no integer is answered 400, changes no row and starts no analysis.
C27_InvalidIdRejected ==
    [][(/\ Arrives
        /\ Arrived.op \in {"GetUrlByID", "DeleteUrl", "ReanalyzeUrl"}
        /\ Arrived.user # NoUser
        /\ Arrived.param = IdInvalid)
          => /\ Arrived.code = 400
             /\ Arrived.pc = "done"
             /\ UNCHANGED <<urls, broken_links, jobs>>]_vars

-----------------------------------------------------------------------------
(* C28 *)

\* the row is there and belongs to someone else than the user
OthersRow(user, id) == RowExists(id) /\ urls[id].user_id # user

\* the broken_links rows of the urls row
LinksOf(table, id) == SelectSeq(table, LAMBDA b : b.url_id = id)

\* C28: a step of a request of user A (its arrival or a later step of its handler) leaves
\* every urls row of another user and that row's broken_links rows as they are, puts no
\* such row into the response, and starts no analysis of such a row; a step of a background
\* analysis changes the row it was started for, and no other.
C28_OwnRowsOnly ==
    [][/\ \A r \in 1..Len(reqs') :
             (r > Len(reqs) \/ reqs'[r] # reqs[r]) =>
                 /\ \A id \in 1..Len(urls) :
                       OthersRow(reqs'[r].user, id)
                          => /\ urls'[id] = urls[id]
                             /\ LinksOf(broken_links', id) = LinksOf(broken_links, id)
                 /\ \A k \in 1..Len(reqs'[r].data) : ~OthersRow(reqs'[r].user, reqs'[r].data[k])
                 /\ \A k \in 1..Len(reqs'[r].links) : ~OthersRow(reqs'[r].user, reqs'[r].links[k])
                 /\ Len(jobs') > Len(jobs)
                       => ~OthersRow(reqs'[r].user, jobs'[Len(jobs')].urlID)
       /\ \A j \in 1..Len(jobs) :
             jobs'[j] # jobs[j] =>
                 \A id \in 1..Len(urls) :
                     id # jobs[j].urlID
                        => /\ urls'[id] = urls[id]
                           /\ LinksOf(broken_links', id) = LinksOf(broken_links, id)]_vars

\* user 1 has added a URL and user 2 has asked for the reanalysis of its row: the answer was
\* 404, the row was not queued again and no second analysis was started
C28_Witness ==
    /\ Len(reqs) = 2
    /\ reqs[1].op = "AddUrl" /\ reqs[1].user = 1 /\ reqs[1].code = 201
    /\ reqs[2].op = "ReanalyzeUrl" /\ reqs[2].user = 2 /\ reqs[2].param = IdParam(1)
    /\ reqs[2].code = 404
    /\ RowExists(1) /\ urls[1].status = "completed"
    /\ Len(jobs) = 1

-----------------------------------------------------------------------------
(* C29 *)

\* the quotient rounded up
Ceil(a, b) == IF a % b = 0 THEN a \div b ELSE (a \div b) + 1

\* C29: for every page and limit parameter GetUrls works with a page of at least 1 (1 when
\* the parameter is below 1, missing or no number), a limit from 1 to 100 (10 when the
\* parameter is outside, missing or no number) and the offset (page-1)*limit, which is not
\* negative; the page count of the response is the total divided by the limit, rounded up.
C29_PagingNormalised ==
    \A r \in 1..Len(reqs) :
        (reqs[r].op = "GetUrls" /\ reqs[r].paging # Nil) =>
            LET p == reqs[r].paging[1] IN
            /\ p.page >= 1
            /\ (~p.pageQ.present \/ ~p.pageQ.numeric \/ p.pageQ.n < 1) => p.page = 1
            /\ p.limit >= 1 /\ p.limit <= 100
            /\ (~p.limitQ.present \/ ~p.limitQ.numeric \/ p.limitQ.n < 1 \/ p.limitQ.n > 100)
                  => p.limit = 10
            /\ p.offset = (p.page - 1) * p.limit
            /\ p.offset >= 0
            /\ reqs[r].pc = "done" => /\ reqs[r].code = 200
                                      /\ p.pages = Ceil(p.total, p.limit)

-----------------------------------------------------------------------------
(* C30 *)

\* C30: once checkBrokenLinks has returned on a deadline, no step changes the list it
\* returned, nor the list of the CrawlResult built from it: a late worker appends to the
\* accumulator only.
C30_ReturnedListStable ==
    [][(ReturnedOnDeadline /\ ReturnedOnDeadline')
          => /\ ret' = ret
             /\ (result.res # Nil /\ result'.res # Nil)
                   => result'.res[1].BrokenLinksDetails = result.res[1].BrokenLinksDetails]_vars
-----------------------------------------------------------------------------
(* C31 *)

\* the entry of a link whose HEAD ran into the timeout of its own client
TimeoutEntry(u) == BrokenLinkDetail(u, Nil, "Link check timeout")

\* the entry checkSingleLink makes of the answer of u under a live context
EntryOf(u) == checkSingleLink(u, Serve(u), FALSE)

\* the HEAD of u runs into the client's timeout
TimesOut(u) == Serve(u).err = Ptr(ErrClientTimeout)

-----------------------------------------------------------------------------
(* C32 *)

\* the main goroutine is in the loop of checkBrokenLinks
Probing == pc \in {"loop", "spawn"}

\* seconds left until the deadline of the context
Remaining == CtxTimeout - clock.now

\* C32: the response and its body are read within the client's 60 s and the context's
\* deadline is at 90 s, so whenever checkBrokenLinks is called the context is live and at
\* least 30 s are left of it; the loop never returns on the context, and the select
\* begins early enough for its 30 s timer to run its whole time before the deadline.
C32_ProbingHasTimeSlice ==
    /\ Probing => ctx = "live" /\ Remaining >= TimerWait
    /\ pc = "select" => Remaining + clock.waited >= TimerWait
    /\ how # "loop"

\* the fetch took the whole of the client's timeout and succeeded: probing starts at 60 s
C32_Witness ==
    /\ Probing
    /\ clock.now = ClientTimeout
    /\ Remaining = TimerWait
    /\ Len(linksToCheck) > 0

-----------------------------------------------------------------------------
(* C33 *)

\* the entry names its link, carries a status code or an error text, and carries the
\* status code exactly when the HEAD of its link was answered: then the status is >= 400
\* and the error text is the status line
WellFormedEntry(e) ==
    /\ e.URL # ""
    /\ e.StatusCode # Nil \/ e.Error # ""
    /\ e.StatusCode # Nil <=> Serve(e.URL).err = Nil
    /\ e.StatusCode # Nil =>
          /\ e.StatusCode[1] >= 400
          /\ e.StatusCode[1] = Serve(e.URL).StatusCode
          /\ e.Error = Serve(e.URL).Status

\* C33: every entry of the broken-link list of a returned CrawlResult has a non-empty URL
\* and a status code or a non-empty error text; the status code is present exactly when
\* the probe was answered, is then >= 400 and comes with the status line as error text.
C33_EntriesWellFormed ==
    Succeeded => \A k \in 1..Len(ReturnedList) : WellFormedEntry(ReturnedList[k])

\* the same for the entries other than a slot whose element is not yet stored
C33_StoredEntriesWellFormed ==
    Succeeded =>
        \A k \in 1..Len(ReturnedList) :
            ReturnedList[k] # ZeroDetail => WellFormedEntry(ReturnedList[k])

-----------------------------------------------------------------------------
(* C34 *)

\* the goroutines started for the urls row id, in the order of their go statements
RunsOf(id) == {j \in 1..Len(jobs) : jobs[j].urlID = id}

\* none of them is still running
NoneInFlight(id) == \A j \in RunsOf(id) : jobs[j].pc = "done"

\* the goroutine started last for the row
LatestRun(id) == CHOOSE j \in RunsOf(id) : \A other \in RunsOf(id) : other <= j

\* ReanalyzeUrl has answered 200 for the row
Reanalysed(id) ==
    \E r \in 1..Len(reqs) :
        reqs[r].op = "ReanalyzeUrl" /\ reqs[r].code = 200 /\ ColumnInt(reqs[r].param) = id

\* no handler is between its statements
HandlersIdle == \A r \in 1..Len(reqs) : reqs[r].pc = "done"

\* the rows of broken_links one run inserts for CrawlURL's outcome
RowsOfRun(id, out) ==
    IF out.err # Nil THEN <<>>
    ELSE [k \in 1..Len(out.res[1].BrokenLinksDetails) |->
             BrokenLinkRow(id, out.res[1].BrokenLinksDetails[k])]

\* the urls row and its broken_links rows are those of the outcome `out` of CrawlURL
StoredIs(id, out) ==
    /\ IF out.err # Nil
       THEN urls[id].status = "error" /\ urls[id].error_message = out.err
       ELSE /\ urls[id].status = "completed" /\ urls[id].error_message = Nil
            /\ urls[id].internal_links = out.res[1].InternalLinks
            /\ urls[id].external_links = out.res[1].ExternalLinks
            /\ urls[id].broken_links = Len(out.res[1].BrokenLinksDetails)
    /\ BrokenLinksOf(id) = RowsOfRun(id, out)

\* C34: after ReanalyzeUrl for a row, when the analysis it started has completed and no
\* analysis of the row is in flight, the row and its broken_links rows hold exactly what
\* that analysis returned.
C34_ReanalysisResultStored ==
    \A id \in RowIds :
        (RowExists(id) /\ Reanalysed(id) /\ HandlersIdle /\ NoneInFlight(id)) =>
            StoredIs(id, jobs[LatestRun(id)].out)

\* the steps of the handler: the UPDATE sets the row queued and clears error_message, the
\* DELETE leaves no broken_links row of the row, and the go statement starts a goroutine
\* for the row's id and url
C34_HandlerResets ==
    [][\A r \in RequestIds :
          (r <= Len(reqs) /\ reqs[r].op = "ReanalyzeUrl" /\ reqs'[r] # reqs[r]) =>
              LET id == reqs[r].items[1].ID IN
              /\ reqs[r].pc = "update" =>
                    urls'[id].status = "queued" /\ urls'[id].error_message = Nil
              /\ reqs[r].pc = "delete" =>
                    /\ BrokenLinksOf(id)' = <<>>
                    /\ Len(jobs') = Len(jobs) + 1
                    /\ jobs'[Len(jobs')] =
                          [urlID |-> id, url |-> urls[id].url, pc |-> "start",
                           out |-> NoResult, k |-> 0]]_vars

-----------------------------------------------------------------------------
(* C35 *)

\* C35: whenever a urls row is completed and no analysis of it is in flight, its
\* broken_links column is the number of broken_links rows stored for it.
C35_CountMatchesRows ==
    \A id \in RowIds :
        (RowExists(id) /\ urls[id].status = "completed" /\ NoneInFlight(id)) =>
            urls[id].broken_links = Len(BrokenLinksOf(id))

-----------------------------------------------------------------------------
(* C36 *)

\* a goroutine started later for the same row has stored its outcome
NewerStored(j) ==
    \E newer \in RunsOf(jobs[j].urlID) : newer > j /\ jobs[newer].pc \in {"insert", "done"}

\* C36: an analysis that stores its outcome after an analysis of the same row requested
\* later has stored its own leaves the row as the later one wrote it; so with all
\* analyses of a row over, the row holds the outcome of the one requested last.
C36_LatestRequestWins ==
    [][\A j \in JobIds :
          (Stores(j) /\ jobs'[j].pc # "crawl" /\ RowExists(jobs[j].urlID) /\ NewerStored(j)) =>
              urls'[jobs[j].urlID] = urls[jobs[j].urlID]]_vars

-----------------------------------------------------------------------------
(* C37 *)

\* C37: no two urls rows have the same user and the same url.
C37_OneRowPerUserUrl ==
    \A a, b \in RowIds :
        (RowExists(a) /\ RowExists(b)
            /\ urls[a].user_id = urls[b].user_id /\ urls[a].url = urls[b].url) => a = b

\* AddUrl arriving for a url its user has stored is answered 409 at once; no row and no
\* goroutine is added
C37_StoredUrlConflicts ==
    [][\A u \in Users : \A url \in AddedUrls :
          (Arrives /\ Arrived.op = "AddUrl" /\ Arrived.user = u /\ Arrived.url = url
              /\ \E id \in 1..Len(urls) : urls[id].user_id = u /\ urls[id].url = url) =>
                  /\ Arrived.code = 409 /\ Arrived.pc = "done"
                  /\ urls' = urls /\ jobs' = jobs]_vars

-----------------------------------------------------------------------------
(* C38 *)

\* the workers that were spawned
Spawned == {w \in Workers : wpc[w] # "none"}

\* C38: every worker that was spawned terminates, also one that waits for a slot or probes
\* when checkBrokenLinks returns on a deadline; when all have terminated every slot of
\* the semaphore is free again; and once CrawlURL has returned no HEAD request is put on
\* the wire.
C38_WorkersTerminate ==
    /\ \A w \in Workers : (w \in Spawned) ~> (wpc[w] = "exit")
    /\ [](pc = "returned" => <>(semaphore = 0 /\ \A w \in Spawned : wpc[w] = "exit"))
    /\ [][pc = "returned" => requests'.HEAD = requests.HEAD]_vars

\* CrawlURL has returned on the timer while one worker probes and another has not yet
\* taken its slot
C38_Witness ==
    /\ pc = "returned" /\ how = "timer"
    /\ Len(linksToCheck) = 2
    /\ \E w \in Spawned : wpc[w] = "probe"
    /\ \E w \in Spawned : wpc[w] = "acquire"

-----------------------------------------------------------------------------
(* C39 *)

\* C39: at most one HEAD request is made per link occurrence, and in the list of a returned
\* CrawlResult every URL occurs at most as often as among the classified links, so that
\* the list is no longer than InternalLinks + ExternalLinks.
C39_SubMultiset ==
    /\ requests.HEAD <= Len(linksToCheck)
    /\ Succeeded =>
          /\ \A k \in 1..Len(ReturnedList) :
                EntriesFor(ReturnedList, ReturnedList[k].URL)
                    <= Count(linksToCheck, ReturnedList[k].URL)
          /\ Len(ReturnedList) <= result.res[1].InternalLinks + result.res[1].ExternalLinks

\* the same, a slot whose element is not yet stored counting for the length only; and a
\* worker probes once: it enters the probe from the semaphore and never goes back
C39_AtMostOnce ==
    [][/\ requests'.HEAD <= Len(linksToCheck')
       /\ \A w \in Workers :
             /\ (wpc'[w] = "probe" /\ wpc[w] # "probe") =>
                   wpc[w] = "acquire" /\ requests'.HEAD = requests.HEAD + 1
             /\ wpc[w] \in {"lock", "grow", "write", "exit"} => wpc'[w] \notin {"acquire", "probe"}
       /\ Succeeded' =>
             /\ \A u \in Urls : EntriesFor(ReturnedList', u) <= Count(linksToCheck', u)
             /\ Len(ReturnedList') <= result'.res[1].InternalLinks + result'.res[1].ExternalLinks]_vars

-----------------------------------------------------------------------------
(* C40 *)

\* the anchors of the fetched page classified against the target (lines 173-202)
PageLinks == Anchors(page, urlParse(target).url, [links |-> <<>>, internal |-> 0, external |-> 0])

\* C40: in a returned CrawlResult the page structure is that of the fetched document and
\* InternalLinks and ExternalLinks are the counts of the page's anchors, whatever the
\* probes answered and however checkBrokenLinks returned; while probing runs the counts
\* and the list of links stay as the anchor loop left them.
C40_PageFixesStructure ==
    /\ Succeeded =>
          /\ PageStructure(result.res[1]) = PageStructure(Structure(doc, 0, 0, <<>>))
          /\ result.res[1].InternalLinks = PageLinks.internal
          /\ result.res[1].ExternalLinks = PageLinks.external
    /\ Classified =>
          /\ internal = PageLinks.internal
          /\ external = PageLinks.external
          /\ linksToCheck = PageLinks.links

\* the timer cut probing short before the broken links of the page were recorded: the
\* result has the two links, the heading, the title and the login form, and an empty list
C40_Witness ==
    /\ Succeeded /\ how = "timer"
    /\ doc = RichDoc
    /\ page = <<UrlGone, UrlRefused>>
    /\ ReturnedList = <<>>
    /\ result.res[1].InternalLinks = 1 /\ result.res[1].ExternalLinks = 1
    /\ result.res[1].H1 = 1 /\ result.res[1].HasLoginForm /\ result.res[1].Title = "Home"

====
